---- MODULE Spec2Model ----
(***************************************************************************)
(* Point-in-time (PIT) fundamentals store of the Pg19g/ML platform:        *)
(* effective-date resolution, filtering of a fetched payload to a cutoff,  *)
(* the append-only snapshot store, panel building over validity windows    *)
(* and the look-ahead validation of a panel.                               *)
(*                                                                         *)
(* Dates are day numbers; day 0 is a Monday.  A missing date (None / NaT)  *)
(* is NoDate.                                                              *)
(***************************************************************************)
EXTENDS Integers, Sequences, FiniteSets, TLC

\* ------------------------------------------------------------------ bounds
\* Last observation date a panel may ask for.
MaxDate == 8
\* Snapshots kept over all symbols before the model stops appending.
MaxSnapshots == 2
\* Periods in one fetched payload.
MaxPeriods == 2
\* Largest safety buffer (trading days) a configuration may hold.
MaxBuffer == 1

\* --------------------------------------------------------------- calendar
\* pandas bdate_range, US calendar: Monday..Friday are business days.
WeekLen == 7
WorkDays == 5

NoDate == -1

Dates == 0..MaxDate

IsBusinessDay(d) ==
    (d % WeekLen) < WorkDays

\* The first business day on or after d.
RECURSIVE NextBusinessDay(_)
NextBusinessDay(d) ==
    IF IsBusinessDay(d) THEN d ELSE NextBusinessDay(d + 1)

\* d advanced by n business days (n = 0 leaves d as it is).
RECURSIVE AddBusinessDays(_, _)
AddBusinessDays(d, n) ==
    IF n = 0 THEN d ELSE AddBusinessDays(NextBusinessDay(d + 1), n - 1)

\* ------------------------------------------------------------------ data
Symbols == {"AAA", "BBB"}
Kinds == {"quarterly", "annual"}
PeriodEnds == {1, 2}
\* Filing dates a vendor record may carry: none, a Thursday, a Friday.
PubDates == {NoDate, 3, 4}
\* updatedAt of a payload: none, or a Friday.
UpdDates == {NoDate, 4}
Vals == {10, 20}

\* One reported accounting period: StatementPeriod.
Periods ==
    [kind : Kinds, pend : PeriodEnds, pub : PubDates, val : Vals]

PeriodKey(p) ==
    <<p.kind, p.pend>>

\* A raw payload: per statement kind a mapping period_end -> record, so at
\* most one record per (kind, period_end).
WellKeyed(ps) ==
    \A p \in ps : \A q \in ps : PeriodKey(p) = PeriodKey(q) => p = q

\* The sets of at most n periods of P with one record per key.
RECURSIVE KeyedSets(_, _)
KeyedSets(P, n) ==
    IF n = 0 THEN {{}}
    ELSE LET smaller == KeyedSets(P, n - 1)
         IN  smaller \cup
                 UNION {{ps \cup {p} :
                            p \in {q \in P : \A r \in ps :
                                                PeriodKey(r) # PeriodKey(q)}} :
                        ps \in smaller}

PeriodSets ==
    KeyedSets(Periods, MaxPeriods)

\* Every payload shape: the arguments of the pure functions.
Payloads ==
    [upd : UpdDates, periods : PeriodSets]

\* The vendor's statements for the run, after the example of the leakage
\* report: a first quarter filed late, an annual statement with a later
\* period end filed before it, the same quarter without a filing date, and
\* the annual statement restated and filed again later.
FeedPeriods ==
    { [kind |-> "quarterly", pend |-> 1, pub |-> 4, val |-> 10],
      [kind |-> "annual", pend |-> 2, pub |-> 3, val |-> 10],
      [kind |-> "quarterly", pend |-> 1, pub |-> NoDate, val |-> 10],
      [kind |-> "annual", pend |-> 2, pub |-> 4, val |-> 20] }

\* The (kind, period_end) pairs a caller appends snapshots for.
TriggerKeys ==
    {PeriodKey(p) : p \in FeedPeriods}

\* The payloads a fetch may return.
FetchedPayloads ==
    [upd : {NoDate}, periods : KeyedSets(FeedPeriods, MaxPeriods)]

\* ---------------------------------------------------------- configuration
Sources == {"reported_date", "payload_updated_at", "period_end_plus_lag"}

\* conservative_lag_days, scaled to the model's calendar.
LagChoices ==
    {[quarterly |-> 1, annual |-> 3]}

PriorityChoices ==
    { <<"reported_date", "payload_updated_at", "period_end_plus_lag">>,
      <<"reported_date">> }

Configs ==
    [lag : LagChoices, buffer : 0..MaxBuffer, priority : PriorityChoices]

\* Every priority list a pit: section may hold: the default, reorderings
\* and single sources of it, the empty list and lists naming a source the
\* resolver does not know.
ResolverPriorities ==
    PriorityChoices \cup
        { <<"payload_updated_at", "reported_date">>,
          <<"period_end_plus_lag", "reported_date">>,
          <<"payload_updated_at">>,
          << >>,
          <<"first_seen_date">>,
          <<"reported_date", "first_seen_date">> }

ResolverConfigs ==
    [lag : LagChoices, buffer : 0..(MaxBuffer + 1),
     priority : ResolverPriorities]

\* The metadata of one StatementPeriod as the resolver sees it; the period
\* end itself may be missing.
ResolverInputs ==
    [kind : Kinds, pend : PeriodEnds \cup {NoDate}, pub : PubDates,
     upd : UpdDates]

\* ---------------------------------------------------------------- state
VARIABLES
    cfg,        \* the immutable configuration of this run
    store,      \* symbol -> set of persisted snapshots
    panel,      \* the panel the consumer currently holds (a sequence of rows)
    result,     \* outcome of validate on that panel, or NotValidated
    origin,     \* where that panel came from: "none", "built" or "forged"
    fin,        \* arguments of a direct call of a pure function
    fout,       \* what that call returned, or NotCalled
    now,        \* the current date, as the clock of the run shows it
    writers,    \* per process: the append_snapshot call it is running
    lock,       \* per symbol: the process holding the symbol's lock
    saved,      \* per symbol: manifest.json as last saved
    heap,       \* the payload objects in memory: cells and who refers to them
    api,        \* the vendor API: calls made, and the last ensure_snapshots
    status,     \* dashboard: the status of each pipeline job
    isKeySet,   \* dashboard: whether an API key was saved
    showReport, \* dashboard: whether the backtest report is visible
    timers,     \* dashboard: per job, the pending timer and what it captured
    mounted,    \* report hook: whether the component using it is mounted
    shouldFetch, \* report hook: the argument of the last render
    data,       \* report hook: the report data, or NoData
    loading,    \* report hook: the loading flag
    pending,    \* report hook: the timers set and neither fired nor cleared
    nextTimer,  \* report hook: the id setTimeout returns next
    isOpen,     \* chat: whether the assistant panel is open
    messages,   \* chat: the transcript
    input,      \* chat: the text in the input field
    isLoading,  \* chat: whether a reply is awaited
    isThinkingMode, \* chat: the thinking-mode toggle
    requests    \* chat: the analyzeWithGemini calls that have not settled

clockVars == <<now>>
concVars == <<writers, lock, saved>>
heapVars == <<heap>>
ingestVars == <<api>>
dashVars == <<status, isKeySet, showReport, timers>>
hookVars == <<mounted, shouldFetch, data, loading, pending, nextTimer>>
chatVars == <<isOpen, messages, input, isLoading, isThinkingMode, requests>>

\* The variables outside the store, its consumer and the direct calls,
\* outside the clock, and outside the concurrent writers.
notPit ==
    <<clockVars, concVars, heapVars, ingestVars, dashVars, hookVars, chatVars>>
notClock == <<concVars, heapVars, ingestVars, dashVars, hookVars, chatVars>>
notConc == <<clockVars, heapVars, ingestVars, dashVars, hookVars, chatVars>>
notHeap == <<clockVars, concVars, ingestVars, dashVars, hookVars, chatVars>>
notIngest == <<clockVars, concVars, heapVars, dashVars, hookVars, chatVars>>
notDash == <<clockVars, concVars, heapVars, ingestVars, hookVars, chatVars>>
notHook == <<clockVars, concVars, heapVars, ingestVars, dashVars, chatVars>>
notChat == <<clockVars, concVars, heapVars, ingestVars, dashVars, hookVars>>

vars == <<cfg, store, panel, result, origin, fin, fout, notPit>>

\* ------------------------------------------------ 4.1 EffectiveDateResolver
\* Fault: any priority list is taken as it is.
AnyPriority(pr) ==
    TRUE

ValidPriority(pr) ==
    Len(pr) > 0 /\ \A i \in 1..Len(pr) : pr[i] \in Sources

\* The date one source yields for a period, NoDate when the source is absent.
SourceDate(src, kind, pend, pub, upd, c) ==
    CASE src = "reported_date" -> pub
      [] src = "payload_updated_at" -> upd
      [] src = "period_end_plus_lag" ->
            IF pend = NoDate THEN NoDate
            ELSE NextBusinessDay(pend + c.lag[kind])
      [] OTHER -> NoDate

\* Fault: the last source of the list that yields a date is taken.
RECURSIVE LastAvailable(_, _, _, _, _, _, _)
LastAvailable(pr, i, kind, pend, pub, upd, c) ==
    IF i > Len(pr) THEN 0
    ELSE LET later == LastAvailable(pr, i + 1, kind, pend, pub, upd, c)
         IN  IF later # 0 THEN later
             ELSE IF SourceDate(pr[i], kind, pend, pub, upd, c) # NoDate THEN i
             ELSE 0

\* Index of the first source of pr, from i on, that yields a date; 0 if none.
RECURSIVE FirstAvailable(_, _, _, _, _, _, _)
FirstAvailable(pr, i, kind, pend, pub, upd, c) ==
    IF i > Len(pr) THEN 0
    ELSE IF SourceDate(pr[i], kind, pend, pub, upd, c) # NoDate THEN i
    ELSE FirstAvailable(pr, i + 1, kind, pend, pub, upd, c)

\* The safety buffer applied to the chosen base date.
ApplyBuffer(base, c) ==
    AddBusinessDays(base, c.buffer)

\* Fault: the safety buffer is added on the fallback path only.
ResolveBufferOnFallback(kind, pend, pub, upd, c) ==
    IF ~ValidPriority(c.priority)
    THEN [status |-> "ConfigurationError", date |-> NoDate, source |-> "none"]
    ELSE LET i == FirstAvailable(c.priority, 1, kind, pend, pub, upd, c)
         IN  IF i = 0
             THEN [status |-> "InsufficientMetadataError", date |-> NoDate,
                   source |-> "none"]
             ELSE LET base == SourceDate(c.priority[i], kind, pend, pub, upd, c)
                  IN  [status |-> "ok",
                       date |-> IF c.priority[i] = "period_end_plus_lag"
                                THEN ApplyBuffer(base, c) ELSE base,
                       source |-> c.priority[i]]

\* Fault: with no source available the resolver returns no date, silently.
ResolveOrNull(kind, pend, pub, upd, c) ==
    IF ~ValidPriority(c.priority)
    THEN [status |-> "ConfigurationError", date |-> NoDate, source |-> "none"]
    ELSE LET i == FirstAvailable(c.priority, 1, kind, pend, pub, upd, c)
         IN  IF i = 0
             THEN [status |-> "ok", date |-> NoDate, source |-> "none"]
             ELSE [status |-> "ok",
                   date |-> ApplyBuffer(
                       SourceDate(c.priority[i], kind, pend, pub, upd, c), c),
                   source |-> c.priority[i]]

\* compute_effective_date: first available source in priority order, then
\* the safety buffer; the result carries the source used.
Resolve(kind, pend, pub, upd, c) ==
    IF ~ValidPriority(c.priority)
    THEN [status |-> "ConfigurationError", date |-> NoDate, source |-> "none"]
    ELSE LET i == FirstAvailable(c.priority, 1, kind, pend, pub, upd, c)
         IN  IF i = 0
             THEN [status |-> "InsufficientMetadataError", date |-> NoDate,
                   source |-> "none"]
             ELSE [status |-> "ok",
                   date |-> ApplyBuffer(
                       SourceDate(c.priority[i], kind, pend, pub, upd, c), c),
                   source |-> c.priority[i]]

\* ---------------------------------------------------------- 4.2 PeriodFilter
\* Fault: a period without a filing date counts as published at its
\* period end (fail-open).
PublicationDateOrPeriodEnd(p, upd, c) ==
    IF p.pub # NoDate THEN p.pub ELSE p.pend

\* The publication date a period carries: its own filing date, else the
\* date the resolver gives it, else NoDate (it cannot be dated).
PublicationDate(p, upd, c) ==
    IF p.pub # NoDate THEN p.pub
    ELSE Resolve(p.kind, p.pend, NoDate, upd, c).date

\* Fault: the cutoff is compared with the period end, not the filing date.
PeriodEndedBy(p, upd, cutoff, c) ==
    p.pend <= cutoff

\* The CRITICAL CHECK of _filter_payload_to_filing_date.
PublishedBy(p, upd, cutoff, c) ==
    LET filing_date == PublicationDate(p, upd, c)
    IN  filing_date # NoDate /\ filing_date <= cutoff

\* Fault: the snapshot keeps the full payload (the code before the fix).
filter_full_payload(payload, cutoff, c) ==
    payload

\* _filter_payload_to_filing_date: a copy of the payload holding only the
\* periods published on or before the cutoff.
filter_to_cutoff(payload, cutoff, c) ==
    [upd |-> payload.upd,
     periods |-> {p \in payload.periods : PublishedBy(p, payload.upd, cutoff, c)}]

\* ---------------------------------------------------------- 4.3 SnapshotStore
SnapshotKey(s) ==
    <<s.eff, s.kind, s.pend>>

\* The filing date of the triggering period as the payload reports it.
TriggerPub(payload, pend, kind) ==
    IF \E p \in payload.periods : PeriodKey(p) = <<kind, pend>>
    THEN (CHOOSE p \in payload.periods : PeriodKey(p) = <<kind, pend>>).pub
    ELSE NoDate

\* The snapshot append_snapshot writes for a trigger resolved to r: the
\* payload filtered to the effective date, under the three-part key.
NewSnapshot(r, payload, pend, kind, c) ==
    [eff |-> r.date, kind |-> kind, pend |-> pend, source |-> r.source,
     payload |-> filter_to_cutoff(payload, r.date, c)]

\* Fault: an existing file of the same name is overwritten.
WriteSnapshotOverwrite(snaps, s) ==
    {t \in snaps : SnapshotKey(t) # SnapshotKey(s)} \cup {s}

\* Fault: one record per period, replaced by a restatement (the old cache).
WriteSnapshotPerPeriod(snaps, s) ==
    {t \in snaps : <<t.kind, t.pend>> # <<s.kind, s.pend>>} \cup {s}

\* Fault: a snapshot dated before a stored snapshot of its period is
\* rejected as out of order.
WriteSnapshotInOrder(snaps, s) ==
    IF \E t \in snaps :
           /\ t.kind = s.kind /\ t.pend = s.pend
           /\ (t.eff > s.eff \/ SnapshotKey(t) = SnapshotKey(s))
    THEN snaps
    ELSE snaps \cup {s}

\* Writing snapshot s into the snapshot set of a symbol: never overwrite an
\* existing file {effective_date}__{kind}__{period_end}.json.
WriteSnapshot(snaps, s) ==
    IF \E t \in snaps : SnapshotKey(t) = SnapshotKey(s)
    THEN snaps
    ELSE snaps \cup {s}

\* append_snapshot(symbol, payload, period_end, statement_kind) on the
\* snapshot set of the symbol; an undatable trigger writes nothing.
append_snapshot(snaps, payload, pend, kind, c) ==
    LET r == Resolve(kind, pend, TriggerPub(payload, pend, kind), payload.upd, c)
    IN  IF r.status # "ok" THEN snaps
        ELSE WriteSnapshot(snaps, NewSnapshot(r, payload, pend, kind, c))

\* list_snapshots orders by effective date; snapshots sharing an effective
\* date are ordered by period_end, so the most recent period_end comes last.
KindRank(k) ==
    IF k = "quarterly" THEN 1 ELSE 2

\* Fault: the order of the file names {effective_date}__{kind}__{period_end}:
\* on one effective date the kind decides before the period end.
SnapLeqByFileName(a, b) ==
    \/ a.eff < b.eff
    \/ a.eff = b.eff /\ KindRank(a.kind) > KindRank(b.kind)
    \/ a.eff = b.eff /\ a.kind = b.kind /\ a.pend <= b.pend

SnapLeq(a, b) ==
    \/ a.eff < b.eff
    \/ a.eff = b.eff /\ a.pend < b.pend
    \/ a.eff = b.eff /\ a.pend = b.pend /\ KindRank(a.kind) <= KindRank(b.kind)

RECURSIVE SortSnaps(_)
SortSnaps(S) ==
    IF S = {} THEN << >>
    ELSE LET m == CHOOSE x \in S : \A t \in S : SnapLeq(x, t)
         IN  <<m>> \o SortSnaps(S \ {m})

\* Fault: the snapshots are listed by period end, the reporting order.
RECURSIVE list_by_period_end(_)
list_by_period_end(snaps) ==
    IF snaps = {} THEN << >>
    ELSE LET m == CHOOSE x \in snaps : \A t \in snaps :
                      \/ x.pend < t.pend
                      \/ x.pend = t.pend /\ SnapLeq(x, t)
         IN  <<m>> \o list_by_period_end(snaps \ {m})

list_snapshots(snaps) ==
    SortSnaps(snaps)

\* Fault: the manifest indexes periods, one entry per (kind, period_end),
\* each under its latest snapshot.
get_manifest_of_periods(snaps) ==
    LET l == list_snapshots(
                 {s \in snaps : \A t \in snaps :
                     (t.kind = s.kind /\ t.pend = s.pend) => t.eff <= s.eff})
    IN  [count |-> Len(l),
         earliest |-> IF l = << >> THEN NoDate ELSE l[1].eff,
         latest |-> IF l = << >> THEN NoDate ELSE l[Len(l)].eff,
         entries |-> [i \in DOMAIN l |->
                         [eff |-> l[i].eff, kind |-> l[i].kind,
                          pend |-> l[i].pend, source |-> l[i].source]]]

\* get_manifest(symbol): the index over the symbol's snapshots, recomputed
\* from list_snapshots: count, earliest and latest effective date, and the
\* source used per snapshot.
get_manifest(snaps) ==
    LET l == list_snapshots(snaps)
    IN  [count |-> Len(l),
         earliest |-> IF l = << >> THEN NoDate ELSE l[1].eff,
         latest |-> IF l = << >> THEN NoDate ELSE l[Len(l)].eff,
         entries |-> [i \in DOMAIN l |->
                         [eff |-> l[i].eff, kind |-> l[i].kind,
                          pend |-> l[i].pend, source |-> l[i].source]]]

\* ---------------------------------------------------------- 4.4 PanelBuilder
\* Fault: a snapshot only counts from the day after its effective date, so
\* the boundary date stays with the older snapshot.
RECURSIVE BisectStrict(_, _, _, _)
BisectStrict(l, d, lo, hi) ==
    IF lo >= hi THEN lo
    ELSE LET mid == (lo + hi) \div 2
         IN  IF l[mid + 1].eff < d
             THEN BisectStrict(l, d, mid + 1, hi)
             ELSE BisectStrict(l, d, lo, mid)

\* Binary search: the number of snapshots of the ordered list l whose
\* effective date is <= d, looked for between positions lo and hi.
RECURSIVE Bisect(_, _, _, _)
Bisect(l, d, lo, hi) ==
    IF lo >= hi THEN lo
    ELSE LET mid == (lo + hi) \div 2
         IN  IF l[mid + 1].eff <= d
             THEN Bisect(l, d, mid + 1, hi)
             ELSE Bisect(l, d, lo, mid)

\* Fault: the latest snapshot of the symbol, whatever the observation date.
SnapshotIndexLatest(l, d) ==
    Len(l)

\* Position in l of the latest snapshot with effective date <= d; 0 if none.
SnapshotIndexAt(l, d) ==
    Bisect(l, d, 0, Len(l))

NoPeriods == [upd |-> NoDate, periods |-> {}]

EmptyRow(sym, d) ==
    [symbol |-> sym, date |-> d, populated |-> FALSE, eff |-> NoDate,
     kind |-> "none", pend |-> NoDate, payload |-> NoPeriods]

\* Fault: dates before the first snapshot are back-filled from it.
PanelRowBackFilled(l, sym, d) ==
    LET i == IF SnapshotIndexAt(l, d) = 0 /\ Len(l) > 0
             THEN 1 ELSE SnapshotIndexAt(l, d)
    IN  IF i = 0 THEN EmptyRow(sym, d)
        ELSE [symbol |-> sym, date |-> d, populated |-> TRUE,
              eff |-> l[i].eff, kind |-> l[i].kind, pend |-> l[i].pend,
              payload |-> l[i].payload]

\* Fault: the row shows the period of the snapshot valid on the date as it
\* was last restated, whenever that restatement became effective.
PanelRowRestated(l, sym, d) ==
    LET i == SnapshotIndexAt(l, d)
        same == {j \in 1..Len(l) :
                    l[j].kind = l[i].kind /\ l[j].pend = l[i].pend}
        k == CHOOSE j \in same : \A j2 \in same : j2 <= j
    IN  IF i = 0 THEN EmptyRow(sym, d)
        ELSE [symbol |-> sym, date |-> d, populated |-> TRUE,
              eff |-> l[k].eff, kind |-> l[k].kind, pend |-> l[k].pend,
              payload |-> l[k].payload]

\* The row of (symbol, observation date) over the ordered snapshot list l of
\* the symbol: the values of the snapshot valid on that date, attributed to
\* it; unpopulated before the first snapshot.
PanelRow(l, sym, d) ==
    LET i == SnapshotIndexAt(l, d)
    IN  IF i = 0 THEN EmptyRow(sym, d)
        ELSE [symbol |-> sym, date |-> d, populated |-> TRUE,
              eff |-> l[i].eff, kind |-> l[i].kind, pend |-> l[i].pend,
              payload |-> l[i].payload]

\* Load all snapshots of the symbol, then one row per observation date.
SymbolRows(snaps, sym, start, end) ==
    LET l == list_snapshots(snaps)
    IN  [i \in 1..(end - start + 1) |-> PanelRow(l, sym, start + i - 1)]

\* build_panel(symbols, start, end): the rows of each symbol in turn, one
\* per observation date of [start, end].
RECURSIVE build_panel(_, _, _, _)
build_panel(st, syms, start, end) ==
    IF syms = << >> THEN << >>
    ELSE SymbolRows(st[Head(syms)], Head(syms), start, end)
             \o build_panel(st, Tail(syms), start, end)

\* ------------------------------------------------------ 4.5 IntegrityValidator
NotValidated == [kind |-> "NotValidated", rows |-> << >>]

\* Fault: a row observed on the effective date itself counts as a leak.
LeaksOrSameDay(row) ==
    row.populated /\ row.eff >= row.date

\* assert effective_date <= date, per populated row.
Leaks(row) ==
    row.populated /\ row.eff > row.date

Offence(row) ==
    [symbol |-> row.symbol, date |-> row.date,
     snapshot_effective_date |-> row.eff]

RECURSIVE Offences(_)
Offences(p) ==
    IF p = << >> THEN << >>
    ELSE (IF Leaks(Head(p)) THEN <<Offence(Head(p))>> ELSE << >>)
             \o Offences(Tail(p))

\* validate(panel): Ok, or LookAheadViolation naming the first offending row
\* (every offending row when so configured).
validate(p, every) ==
    LET bad == Offences(p)
    IN  IF bad = << >> THEN [kind |-> "Ok", rows |-> << >>]
        ELSE [kind |-> "LookAheadViolation",
              rows |-> IF every THEN bad ELSE <<Head(bad)>>]

\* Fault: validate drops the offending rows from the panel it was given.
PanelWithoutLeaks(p) ==
    SelectSeq(p, LAMBDA row : ~Leaks(row))

\* The panel as validate leaves it: it is only read.
PanelAfterValidate(p) ==
    p

\* ------------------------------------------- on-demand materialization
\* _extract_all_periods: the periods of the payload that can be dated.
ExtractAllPeriods(payload, c) ==
    {p \in payload.periods : PublicationDate(p, payload.upd, c) # NoDate}

\* Ascending publication date; equal dates by period_end, then kind.
FiledLeq(p, q, upd, c) ==
    \/ PublicationDate(p, upd, c) < PublicationDate(q, upd, c)
    \/ /\ PublicationDate(p, upd, c) = PublicationDate(q, upd, c)
       /\ \/ p.pend < q.pend
          \/ p.pend = q.pend /\ KindRank(p.kind) <= KindRank(q.kind)

\* Fault: the periods are sorted by period_end (the order before the fix).
RECURSIVE SortByPeriodEnd(_, _, _)
SortByPeriodEnd(S, upd, c) ==
    IF S = {} THEN << >>
    ELSE LET m == CHOOSE x \in S : \A t \in S :
                      \/ x.pend < t.pend
                      \/ /\ x.pend = t.pend
                         /\ KindRank(x.kind) <= KindRank(t.kind)
         IN  <<m>> \o SortByPeriodEnd(S \ {m}, upd, c)

\* all_periods.sort(key=lambda x: x["filing_date"])
RECURSIVE SortByFilingDate(_, _, _)
SortByFilingDate(S, upd, c) ==
    IF S = {} THEN << >>
    ELSE LET m == CHOOSE x \in S : \A t \in S : FiledLeq(x, t, upd, c)
         IN  <<m>> \o SortByFilingDate(S \ {m}, upd, c)

\* The loop of _materialize_snapshots over the sorted periods: one snapshot
\* per period, from the payload filtered to that period's filing date.
RECURSIVE MaterializeLoop(_, _, _, _)
MaterializeLoop(snaps, todo, payload, c) ==
    IF todo = << >> THEN snaps
    ELSE LET p == Head(todo)
             filtered == filter_to_cutoff(
                 payload, PublicationDate(p, payload.upd, c), c)
         IN  MaterializeLoop(
                 append_snapshot(snaps, filtered, p.pend, p.kind, c),
                 Tail(todo), payload, c)

materialize_snapshots(snaps, payload, c) ==
    MaterializeLoop(
        snaps,
        SortByFilingDate(ExtractAllPeriods(payload, c), payload.upd, c),
        payload, c)

\* The same loop, seen from outside: per iteration, in order, the
\* snapshots that its append_snapshot call added to the store.
RECURSIVE MaterializeCreated(_, _, _, _)
MaterializeCreated(snaps, todo, payload, c) ==
    IF todo = << >> THEN << >>
    ELSE LET p == Head(todo)
             filtered == filter_to_cutoff(
                 payload, PublicationDate(p, payload.upd, c), c)
             after == append_snapshot(snaps, filtered, p.pend, p.kind, c)
         IN  <<after \ snaps>> \o
                 MaterializeCreated(after, Tail(todo), payload, c)

\* ----------------------------------------------------------------- actions
NotCalled == [called |-> FALSE]

RECURSIVE CountSnapshots(_, _)
CountSnapshots(st, syms) ==
    IF syms = {} THEN 0
    ELSE LET sym == CHOOSE x \in syms : TRUE
         IN  Cardinality(st[sym]) + CountSnapshots(st, syms \ {sym})

TotalSnapshots(st) ==
    CountSnapshots(st, Symbols)

EmptyStore == [sym \in Symbols |-> {}]

\* The payloads of the panel tests (test_no_leakage): no statement carries
\* a filing date, so the period end and the lag date the snapshot.
PanelPayloads ==
    {pl \in FetchedPayloads :
        /\ Cardinality(pl.periods) = 1
        /\ \A p \in pl.periods : p.pub = NoDate}

\* pit_store.append_snapshot(symbol, payload, period_end, statement_kind)
AppendSnapshot(PS) ==
    \E sym \in Symbols, payload \in PS, key \in TriggerKeys :
        LET new == [store EXCEPT
                       ![sym] = append_snapshot(@, payload, key[2], key[1], cfg)]
        IN  /\ TotalSnapshots(new) <= MaxSnapshots
            /\ store' = new
            /\ UNCHANGED <<cfg, panel, result, origin, fin, fout, notPit>>

\* Materialization of one fetched payload for a symbol.
Materialize(PS) ==
    \E sym \in Symbols, payload \in PS :
        LET new == [store EXCEPT
                       ![sym] = materialize_snapshots(@, payload, cfg)]
        IN  /\ TotalSnapshots(new) <= MaxSnapshots
            /\ store' = new
            /\ UNCHANGED <<cfg, panel, result, origin, fin, fout, notPit>>

SymbolLists == {<<"BBB">>, <<"AAA", "BBB">>}

\* panel = pit_store.build_panel(symbols, start, end)
\* create_leaky_panel: a hand-made panel of one or two rows that claim an
\* effective date on, or one day after, their observation date.
ForgedDay == 3

ForgedRow(e) ==
    [symbol |-> "AAA", date |-> ForgedDay, populated |-> TRUE, eff |-> e,
     kind |-> "quarterly", pend |-> 1, payload |-> NoPeriods]

ForgedPanels ==
    {<<ForgedRow(e)>> : e \in {ForgedDay, ForgedDay + 1}}
        \cup {<<ForgedRow(e1), ForgedRow(e2)>> :
                 e1 \in {ForgedDay, ForgedDay + 1}, e2 \in {ForgedDay + 2}}

\* The windows a consumer asks for: the whole calendar, its first days up
\* to ForgedDay, that day alone, and the days from it on.
Windows ==
    {w \in {0, ForgedDay} \X {ForgedDay, MaxDate} : w[1] <= w[2]}

\* Fault: a read compacts the history it went through, keeping of each
\* period only the snapshot with the latest effective date.
StoreCompactedByRead(st) ==
    [sym \in Symbols |->
        {s \in st[sym] :
            \A t \in st[sym] :
                (t.kind = s.kind /\ t.pend = s.pend) => t.eff <= s.eff}]

\* The store as build_panel, list_snapshots, get_manifest,
\* has_sufficient_coverage and validate leave it: they only read.
StoreAfterRead(st) ==
    st

BuildPanel ==
    \E syms \in SymbolLists, w \in Windows :
        /\ panel' = build_panel(store, syms, w[1], w[2])
        /\ result' = NotValidated
        /\ origin' = "built"
        /\ store' = StoreAfterRead(store)
        /\ UNCHANGED <<cfg, fin, fout, notPit>>

\* pit_store.validate_pit_integrity(panel)
Validate ==
    \E every \in BOOLEAN :
        /\ result' = validate(panel, every)
        /\ panel' = PanelAfterValidate(panel)
        /\ store' = StoreAfterRead(store)
        /\ UNCHANGED <<cfg, origin, fin, fout, notPit>>

\* A direct call filter_to_cutoff(payload, cutoff).
Filter ==
    /\ fout = NotCalled
    /\ fout' = [called |-> TRUE,
                payload |-> filter_to_cutoff(fin.payload, fin.cutoff, cfg)]
    /\ UNCHANGED <<cfg, store, panel, result, origin, fin, notPit>>

\* A direct call compute_effective_date(period) under the configuration.
ComputeEffectiveDate ==
    /\ fout = NotCalled
    /\ fout' = [called |-> TRUE,
                result |-> Resolve(fin.kind, fin.pend, fin.pub, fin.upd, cfg)]
    /\ UNCHANGED <<cfg, store, panel, result, origin, fin, notPit>>

NoCall == [payload |-> NoPeriods, cutoff |-> 0]

\* A direct call _materialize_snapshots(symbol, fundamentals) on a symbol
\* without snapshots; the call's append_snapshot calls are logged in order.
MaterializeCall ==
    \E sym \in Symbols :
        /\ fout = NotCalled
        /\ store[sym] = {}
        /\ store' = [store EXCEPT
                        ![sym] = materialize_snapshots(@, fin.payload, cfg)]
        /\ fout' = [called |-> TRUE,
                    sym |-> sym,
                    created |-> MaterializeCreated(
                        store[sym],
                        SortByFilingDate(ExtractAllPeriods(fin.payload, cfg),
                                         fin.payload.upd, cfg),
                        fin.payload, cfg)]
        /\ UNCHANGED <<cfg, panel, result, origin, fin, notPit>>

\* ------------------------------------------- concurrent append_snapshot
\* The processes that call append_snapshot at the same time.
Procs == {"w1", "w2"}

Free == "free"

NoSnapshot ==
    [eff |-> NoDate, kind |-> "none", pend |-> NoDate, source |-> "none",
     payload |-> NoPeriods]

\* A process outside any call.
IdleWriter ==
    [pc |-> "idle", sym |-> "none", snap |-> NoSnapshot, outcome |-> "none",
     attempts |-> 0, listed |-> << >>]

NoWriters ==
    /\ writers = [p \in Procs |-> IdleWriter]
    /\ lock = [sym \in Symbols |-> Free]
    /\ saved = [sym \in Symbols |-> get_manifest({})]

\* The payloads the concurrent callers pass: the dated statements of the
\* feed as first filed.
ConcPayloads ==
    {pl \in FetchedPayloads :
        /\ pl.periods # {}
        /\ \A p \in pl.periods : p.pub # NoDate /\ p.val = 10}

\* Fault: no lock is taken.
CanAcquireAlways(lk, sym) ==
    TRUE

\* Fault: one lock for the whole store.
CanAcquireGlobal(lk, sym) ==
    \A other \in Symbols : lk[other] = Free

\* The per-symbol lock: free for this symbol.
CanAcquire(lk, sym) ==
    lk[sym] = Free

\* Fault: the file is written in place, under its final name: while it is
\* being written the directory shows it without content.
DirectoryInPlace(snaps, s) ==
    snaps \cup {[s EXCEPT !.source = "none", !.payload = NoPeriods]}

\* The directory of the symbol while snapshot s is being written to a
\* temporary file: as before.
DirectoryDuringWrite(snaps, s) ==
    snaps

\* Publishing the temporary file under the snapshot's name (a rename): a
\* file of that name is replaced.
PublishFile(snaps, s) ==
    {t \in snaps : SnapshotKey(t) # SnapshotKey(s)} \cup {s}

\* Fault: a failed write is tried once more before the error is raised.
RetryAfterWriteFailure(w) ==
    IF w.attempts < 1
    THEN [w EXCEPT !.attempts = @ + 1]
    ELSE [w EXCEPT !.pc = "release", !.outcome = "StorageError",
                   !.attempts = @ + 1]

\* The call after a persistence failure: StorageError for the caller.
AfterWriteFailure(w) ==
    [w EXCEPT !.pc = "release", !.outcome = "StorageError",
              !.attempts = @ + 1]

\* append_snapshot is called: the effective date is resolved and the
\* payload filtered; an undatable trigger ends the call.
StartAppend(p) ==
    \E sym \in Symbols, payload \in ConcPayloads, key \in TriggerKeys :
        LET r == Resolve(key[1], key[2], TriggerPub(payload, key[2], key[1]),
                         payload.upd, cfg)
        IN  /\ writers[p].pc = "idle"
            /\ writers' = [writers EXCEPT ![p] =
                   IF r.status # "ok"
                   THEN [@ EXCEPT !.pc = "done", !.sym = sym,
                                  !.outcome = r.status]
                   ELSE [@ EXCEPT !.pc = "lock", !.sym = sym,
                                  !.snap = NewSnapshot(r, payload, key[2],
                                                       key[1], cfg)]]
            /\ UNCHANGED <<cfg, store, panel, result, origin, fin, fout,
                           lock, saved, notConc>>

Acquire(p) ==
    /\ writers[p].pc = "lock"
    /\ CanAcquire(lock, writers[p].sym)
    /\ lock' = [lock EXCEPT ![writers[p].sym] = p]
    /\ writers' = [writers EXCEPT ![p].pc = "check"]
    /\ UNCHANGED <<cfg, store, panel, result, origin, fin, fout, saved,
                   notConc>>

\* Never overwrite: an existing key makes the call a no-op.
CheckExists(p) ==
    /\ writers[p].pc = "check"
    /\ writers' = [writers EXCEPT ![p] =
           IF \E t \in store[@.sym] : SnapshotKey(t) = SnapshotKey(@.snap)
           THEN [@ EXCEPT !.pc = "release", !.outcome = "exists"]
           ELSE [@ EXCEPT !.pc = "write"]]
    /\ UNCHANGED <<cfg, store, panel, result, origin, fin, fout, lock, saved,
                   notConc>>

WriteTemp(p) ==
    /\ writers[p].pc = "write"
    /\ writers' = [writers EXCEPT ![p].pc = "publish", ![p].attempts = @ + 1]
    /\ store' = [store EXCEPT ![writers[p].sym] =
                     DirectoryDuringWrite(@, writers[p].snap)]
    /\ UNCHANGED <<cfg, panel, result, origin, fin, fout, lock, saved,
                   notConc>>

\* The persistence layer fails while the file is written.
WriteFails(p) ==
    /\ writers[p].pc = "write"
    /\ writers' = [writers EXCEPT ![p] = AfterWriteFailure(@)]
    /\ UNCHANGED <<cfg, store, panel, result, origin, fin, fout, lock, saved,
                   notConc>>

Publish(p) ==
    /\ writers[p].pc = "publish"
    /\ store' = [store EXCEPT ![writers[p].sym] =
                     PublishFile(@, writers[p].snap)]
    /\ writers' = [writers EXCEPT ![p].pc = "list"]
    /\ UNCHANGED <<cfg, panel, result, origin, fin, fout, lock, saved,
                   notConc>>

\* Manifest recomputation, first half: list the snapshots.
ListForManifest(p) ==
    /\ writers[p].pc = "list"
    /\ writers' = [writers EXCEPT
                       ![p].pc = "save",
                       ![p].listed = get_manifest(store[writers[p].sym])]
    /\ UNCHANGED <<cfg, store, panel, result, origin, fin, fout, lock, saved,
                   notConc>>

\* Manifest recomputation, second half: save manifest.json.
SaveManifest(p) ==
    /\ writers[p].pc = "save"
    /\ saved' = [saved EXCEPT ![writers[p].sym] = writers[p].listed]
    /\ writers' = [writers EXCEPT ![p].pc = "release",
                                   ![p].outcome = "written"]
    /\ UNCHANGED <<cfg, store, panel, result, origin, fin, fout, lock,
                   notConc>>

Release(p) ==
    /\ writers[p].pc = "release"
    /\ lock' = [lock EXCEPT ![writers[p].sym] =
                    IF @ = p THEN Free ELSE @]
    /\ writers' = [writers EXCEPT ![p].pc = "done"]
    /\ UNCHANGED <<cfg, store, panel, result, origin, fin, fout, saved,
                   notConc>>

\* ------------------------------------------------- payloads as objects
\* A payload in memory is a dict whose period records are objects of their
\* own: heap.cells holds the records, a payload is the set of the cells it
\* refers to.  heap.src is the payload passed to the filter, heap.outs the
\* filtered payloads returned so far.
EmptyHeap == [cells |-> << >>, src |-> {}, outs |-> << >>]

NoHeap == heap = EmptyHeap

\* Filtered payloads produced from one source.
MaxCopies == 2

\* The records of a set of periods laid out as cells, in filing order.
CellsOf(payload, c) ==
    SortByFilingDate(payload.periods, payload.upd, c)

\* The periods a set of cell references denotes.
Deref(cells, ids) ==
    {cells[i] : i \in ids}

\* Fault: the copy refers to the period records of the original.
shallowcopy(cells, ids) ==
    [cells |-> cells, ids |-> ids]

\* copy.deepcopy of a payload: every period record is duplicated in a new
\* cell; the result refers to the new cells only.
RECURSIVE deepcopy(_, _)
deepcopy(cells, ids) ==
    IF ids = {} THEN [cells |-> cells, ids |-> {}]
    ELSE LET i == CHOOSE x \in ids : \A y \in ids : x <= y
             rest == deepcopy(Append(cells, cells[i]), ids \ {i})
         IN  [cells |-> rest.cells, ids |-> rest.ids \cup {Len(cells) + 1}]

\* _filter_payload_to_filing_date on the heap: deep copy, then keep in the
\* copy the periods published on or before the cutoff.
filter_on_heap(h, upd, cutoff, c) ==
    LET filtered == deepcopy(h.cells, h.src)
        kept == {i \in filtered.ids :
                    PublishedBy(filtered.cells[i], upd, cutoff, c)}
    IN  [cells |-> filtered.cells, src |-> h.src,
         outs |-> Append(h.outs, kept)]

\* filtered = _filter_payload_to_filing_date(payload, cutoff)
FilterCopy ==
    \E cutoff \in {w[2] : w \in Windows} :
        /\ Len(heap.outs) < MaxCopies
        /\ heap' = filter_on_heap(heap, fin.payload.upd, cutoff, cfg)
        /\ UNCHANGED <<cfg, store, panel, result, origin, fin, fout, notHeap>>

\* The caller changes a figure of a period of a payload it was returned.
MutateField ==
    \E k \in DOMAIN heap.outs : \E i \in heap.outs[k] :
        \E v \in Vals \ {heap.cells[i].val} :
            /\ heap' = [heap EXCEPT !.cells[i].val = v]
            /\ UNCHANGED <<cfg, store, panel, result, origin, fin, fout,
                           notHeap>>

\* The caller deletes a period from a payload it was returned.
MutateDelete ==
    \E k \in DOMAIN heap.outs : \E i \in heap.outs[k] :
        /\ heap' = [heap EXCEPT !.outs[k] = @ \ {i}]
        /\ UNCHANGED <<cfg, store, panel, result, origin, fin, fout, notHeap>>

\* ------------------------------------------------- on-demand ingestion
\* API calls a run may make before the model stops fetching.
MaxCalls == 2
\* min_periods_required, scaled to the model's stores.
MinPeriodsRequired == 2

NoEnsure == [sym |-> "none", force |-> FALSE, fetched |-> FALSE]

NoApi == api = [calls |-> 0, last |-> NoEnsure]

\* Fault: any snapshot at all counts as coverage.
has_any_snapshot(snaps, min_periods) ==
    snaps # {}

\* has_sufficient_coverage(symbol, min_periods): count the snapshots.
has_sufficient_coverage(snaps, min_periods) ==
    Cardinality(snaps) >= min_periods

\* fetcher.ensure_snapshots(symbol, force_refresh): use the existing
\* snapshots when there are enough of them, else fetch the full
\* fundamentals once and materialize them.
EnsureSnapshots ==
    \E sym \in Symbols, force \in BOOLEAN :
        IF ~force /\ has_sufficient_coverage(store[sym], MinPeriodsRequired)
        THEN /\ api' = [api EXCEPT !.last = [sym |-> sym, force |-> force,
                                             fetched |-> FALSE]]
             /\ UNCHANGED <<cfg, store, panel, result, origin, fin, fout,
                            notIngest>>
        ELSE \E payload \in FetchedPayloads :
                 LET new == [store EXCEPT
                                ![sym] = materialize_snapshots(@, payload, cfg)]
                 IN  /\ api.calls < MaxCalls
                     /\ TotalSnapshots(new) <= MaxSnapshots
                     /\ api' = [calls |-> api.calls + 1,
                                last |-> [sym |-> sym, force |-> force,
                                          fetched |-> TRUE]]
                     /\ store' = new
                     /\ UNCHANGED <<cfg, panel, result, origin, fin, fout,
                                    notIngest>>

\* ------------------------------------------------------- read operations
\* build_panel called twice with the same arguments (a list of symbols and
\* the whole calendar as the date range), nothing appended in
\* between; the consumer keeps the second panel and notes whether the
\* first one was the same.
RepeatBuildPanel ==
    \E syms \in SymbolLists, w \in {<<0, MaxDate>>} :
        LET first == build_panel(store, syms, w[1], w[2])
            between == StoreAfterRead(store)
            second == build_panel(between, syms, w[1], w[2])
        IN  /\ panel' = second
            /\ result' = NotValidated
            /\ origin' = "built"
            /\ store' = StoreAfterRead(between)
            /\ fout' = [called |-> TRUE, op |-> "build_panel",
                        same |-> (first = second)]
            /\ UNCHANGED <<cfg, fin, notPit>>

\* One of the listing calls on a symbol: list_snapshots, get_manifest or
\* has_sufficient_coverage; the consumer notes whether the call returned
\* what the same call returns when repeated.
ReadSymbol ==
    \E sym \in Symbols,
       op \in {"list_snapshots", "get_manifest", "has_sufficient_coverage"} :
        LET Call(st) ==
                CASE op = "list_snapshots" -> list_snapshots(st[sym])
                  [] op = "get_manifest" -> get_manifest(st[sym])
                  [] OTHER -> has_sufficient_coverage(st[sym],
                                                      MinPeriodsRequired)
            after == StoreAfterRead(store)
        IN  /\ store' = after
            /\ fout' = [called |-> TRUE, op |-> op,
                        same |-> (Call(store) = Call(after))]
            /\ UNCHANGED <<cfg, panel, result, origin, fin, notPit>>

ForgePanel ==
    \E p \in ForgedPanels :
        /\ panel' = p
        /\ result' = NotValidated
        /\ origin' = "forged"
        /\ UNCHANGED <<cfg, store, fin, fout, notPit>>

\* ------------------------------------------------------------ dashboard
\* The four pipeline jobs, in the order the runner lists them.
Jobs == {"ingest", "train", "backtest", "report"}

JobStates == {"idle", "running", "completed", "failed"}

\* useState of DashboardPage: every job idle.
IdleStatus == [job \in Jobs |-> "idle"]

NoTimer == [pending |-> FALSE]

\* The dashboard as mounted: nothing run, no key, no report, no timer.
NoDash ==
    /\ status = IdleStatus
    /\ isKeySet = FALSE
    /\ showReport = FALSE
    /\ timers = [job \in Jobs |-> NoTimer]

\* What the user may have typed in the key field when pressing Save.
KeyInputs == {"", " ", "key"}

\* keyInput.trim(), over KeyInputs.
trim(key) == IF key = " " THEN "" ELSE key

\* Fault: a button is disabled only while its own job runs.
getButtonStateOwnJobOnly(st, keySet, jobId) ==
    [disabled |-> st[jobId] = "running"]

\* PipelineRunner.getButtonState(jobId), on the status and isKeySet props.
getButtonState(st, keySet, jobId) ==
    IF st[jobId] = "running" THEN [disabled |-> TRUE]
    ELSE CASE jobId = "ingest" -> [disabled |-> ~keySet]
           [] jobId = "train" -> [disabled |-> st["ingest"] # "completed"]
           [] jobId = "backtest" -> [disabled |-> st["train"] # "completed"]
           [] jobId = "report" -> [disabled |-> st["backtest"] # "completed"]
           [] OTHER -> [disabled |-> TRUE]

\* Fault: every job has the chance of failure that train has.
successAtRandom(job, st, keySet, random) ==
    CASE job = "ingest" -> keySet /\ random
      [] job = "train" -> st["ingest"] = "completed" /\ random
      [] job = "backtest" -> st["train"] = "completed" /\ random
      [] job = "report" -> st["backtest"] = "completed" /\ random
      [] OTHER -> FALSE

\* The outcome the timer callback of handleRun computes, from the status
\* and isKeySet of the render whose handleRun was called; random stands
\* for Math.random() > 0.2.
success(job, st, keySet, random) ==
    CASE job = "ingest" -> keySet
      [] job = "train" -> st["ingest"] = "completed" /\ random
      [] job = "backtest" -> st["train"] = "completed"
      [] job = "report" -> st["backtest"] = "completed"
      [] OTHER -> FALSE

\* ApiConfig.handleSave: a non-blank key is handed to onSetKey, which sets
\* isKeySet.
HandleSave ==
    \E key \in KeyInputs :
        /\ trim(key) # ""
        /\ isKeySet' = TRUE
        /\ UNCHANGED <<cfg, store, panel, result, origin, fin, fout,
                       status, showReport, timers, notDash>>

\* Fault: handleRun marks the job running and arms no timer.
HandleRunWithoutTimer(job) ==
    /\ ~getButtonState(status, isKeySet, job).disabled
    /\ status' = [status EXCEPT ![job] = "running"]
    /\ UNCHANGED <<cfg, store, panel, result, origin, fin, fout,
                   isKeySet, showReport, timers, notDash>>

\* A click on the run button of a job, which the browser delivers only
\* while the button is enabled: handleRun marks the job running and arms
\* the timer, whose callback closes over this render's status and isKeySet.
HandleRun(job) ==
    /\ ~getButtonState(status, isKeySet, job).disabled
    /\ status' = [status EXCEPT ![job] = "running"]
    /\ timers' = [timers EXCEPT ![job] = [pending |-> TRUE,
                                          status |-> status,
                                          isKeySet |-> isKeySet]]
    /\ UNCHANGED <<cfg, store, panel, result, origin, fin, fout,
                   isKeySet, showReport, notDash>>

\* Fault: the success of any job makes the report visible.
TimerFiresShowingReport(job) ==
    /\ timers[job].pending
    /\ \E random \in BOOLEAN :
           LET ok == success(job, timers[job].status, timers[job].isKeySet,
                             random)
           IN  /\ status' = [status EXCEPT
                                ![job] = IF ok THEN "completed" ELSE "failed"]
               /\ showReport' = (showReport \/ ok)
    /\ timers' = [timers EXCEPT ![job] = NoTimer]
    /\ UNCHANGED <<cfg, store, panel, result, origin, fin, fout,
                   isKeySet, notDash>>

\* The timer of a job fires: the job becomes completed or failed, and a
\* successful report makes the report visible.
TimerFires(job) ==
    /\ timers[job].pending
    /\ \E random \in BOOLEAN :
           LET ok == success(job, timers[job].status, timers[job].isKeySet,
                             random)
           IN  /\ status' = [status EXCEPT
                                ![job] = IF ok THEN "completed" ELSE "failed"]
               /\ showReport' = (showReport \/ (job = "report" /\ ok))
    /\ timers' = [timers EXCEPT ![job] = NoTimer]
    /\ UNCHANGED <<cfg, store, panel, result, origin, fin, fout,
                   isKeySet, notDash>>

\* ------------------------------------------------- useMockBacktestData
\* Timers one component may set before the model stops re-rendering it.
MaxTimers == 4

\* The delay of the mock fetch (2500 ms), in ticks of the model's clock.
FetchDelay == 2

NoData == "null"

\* The module constant mockData.
mockData == "mockData"

\* BacktestReport as first rendered by the dashboard: not visible, so the
\* hook's effect did nothing.
NoHook ==
    /\ mounted = TRUE
    /\ shouldFetch = FALSE
    /\ data = NoData
    /\ loading = FALSE
    /\ pending = {}
    /\ nextTimer = 1

\* Fault: the effect returns no cleanup, so its timer is never cleared.
NoCleanup(timerSet, wasFetching, timer) ==
    timerSet

\* The cleanup of the effect of the previous render: an effect that ran
\* with shouldFetch true returned () => clearTimeout(timer).
Cleanup(timerSet, wasFetching, timer) ==
    IF wasFetching THEN {t \in timerSet : t.id # timer} ELSE timerSet

\* The effect of useMockBacktestData for a render with shouldFetch = b,
\* after the cleanup of the previous one; the state updates of one effect
\* are applied together.
RunEffect(b) ==
    LET cleared == Cleanup(pending, shouldFetch, nextTimer - 1)
    IN  IF b
        THEN /\ loading' = TRUE
             /\ data' = NoData
             /\ pending' = cleared \cup
                               {[id |-> nextTimer, remaining |-> FetchDelay]}
             /\ nextTimer' = nextTimer + 1
        ELSE /\ pending' = cleared
             /\ UNCHANGED <<data, loading, nextTimer>>

\* The parent renders the component with another value of shouldFetch.
Rerender ==
    /\ mounted
    /\ nextTimer <= MaxTimers
    /\ shouldFetch' = ~shouldFetch
    /\ RunEffect(~shouldFetch)
    /\ UNCHANGED <<cfg, store, panel, result, origin, fin, fout, mounted,
                   notHook>>

\* The component unmounts: the last effect's cleanup runs and the state
\* of the hook is gone.
Unmount ==
    /\ mounted
    /\ mounted' = FALSE
    /\ pending' = Cleanup(pending, shouldFetch, nextTimer - 1)
    /\ shouldFetch' = FALSE
    /\ data' = NoData
    /\ loading' = FALSE
    /\ UNCHANGED <<cfg, store, panel, result, origin, fin, fout, nextTimer,
                   notHook>>

\* The component is mounted again, with fresh state, and its first effect
\* runs.
Mount ==
    \E b \in BOOLEAN :
        /\ ~mounted
        /\ nextTimer <= MaxTimers
        /\ mounted' = TRUE
        /\ shouldFetch' = b
        /\ RunEffect(b)
        /\ UNCHANGED <<cfg, store, panel, result, origin, fin, fout,
                       notHook>>

\* Time passes for the timers that are set.
TimePasses ==
    /\ pending # {}
    /\ \A t \in pending : t.remaining > 0
    /\ pending' = {[id |-> t.id, remaining |-> t.remaining - 1] :
                      t \in pending}
    /\ UNCHANGED <<cfg, store, panel, result, origin, fin, fout, mounted,
                   shouldFetch, data, loading, nextTimer, notHook>>

\* A timer whose delay has elapsed runs its callback: setData(mockData),
\* setLoading(false), applied together; on an unmounted component the
\* updates are dropped.
FetchTimerFires ==
    \E t \in pending :
        /\ t.remaining = 0
        /\ pending' = pending \ {t}
        /\ IF mounted
           THEN data' = mockData /\ loading' = FALSE
           ELSE UNCHANGED <<data, loading>>
        /\ UNCHANGED <<cfg, store, panel, result, origin, fin, fout, mounted,
                       shouldFetch, nextTimer, notHook>>

\* ----------------------------------------------------------- GeminiChat
\* Sends a session may have accepted before the model stops sending.
MaxSends == 2

\* What the user may have typed: nothing, blanks, or a question.
ChatInputs == {"", " ", "hi"}

\* GeminiChat as mounted: closed, empty transcript, nothing awaited.
NoChat ==
    /\ isOpen = FALSE
    /\ messages = << >>
    /\ input = ""
    /\ isLoading = FALSE
    /\ isThinkingMode = FALSE
    /\ requests = << >>

\* How ai.models.generateContent may end: with a response, with an Error
\* thrown, or with another value thrown.
ApiOutcomes == {"response", "Error", "thrown"}

\* Fault: analyzeWithGemini without its try/catch.
analyzeWithGeminiUncaught(outcome) ==
    IF outcome = "response"
    THEN [state |-> "fulfilled", value |-> "response.text"]
    ELSE [state |-> "rejected", value |-> outcome]

\* analyzeWithGemini(prompt, isThinkingMode): how the promise it returns
\* settles, for each way the API call may end.
analyzeWithGemini(outcome) ==
    CASE outcome = "response" ->
             [state |-> "fulfilled", value |-> "response.text"]
      [] outcome = "Error" ->
             [state |-> "fulfilled",
              value |-> "An error occurred while communicating with the Gemini API: message"]
      [] OTHER ->
             [state |-> "fulfilled",
              value |-> "An unknown error occurred while communicating with the Gemini API."]

\* Fault: handleSend does not look at isLoading.
AcceptsWhileLoading(text, busy) ==
    trim(text) # ""

\* The guard of handleSend: input.trim() === '' || isLoading returns.
Accepts(text, busy) ==
    ~(trim(text) = "" \/ busy)

\* Fault: the new message is put in front of the transcript.
PrependMessage(prev, msg) ==
    <<msg>> \o prev

\* setMessages(prev => [...prev, msg])
AppendMessage(prev, msg) ==
    Append(prev, msg)

\* handleSend up to its await: the user message, the cleared input, the
\* loading flag and the call of analyzeWithGemini.
handleSend ==
    IF Accepts(input, isLoading)
    THEN /\ Len(messages) < 2 * MaxSends
         /\ messages' = AppendMessage(messages,
                                      [role |-> "user", text |-> input])
         /\ input' = ""
         /\ isLoading' = TRUE
         /\ requests' = Append(requests, [prompt |-> input,
                                          isThinkingMode |-> isThinkingMode])
         /\ UNCHANGED <<cfg, store, panel, result, origin, fin, fout,
                        isOpen, isThinkingMode, notChat>>
    ELSE UNCHANGED vars

\* The assistant panel is opened or closed.
SetIsOpen ==
    /\ isOpen' = ~isOpen
    /\ UNCHANGED <<cfg, store, panel, result, origin, fin, fout, messages,
                   input, isLoading, isThinkingMode, requests, notChat>>

\* The thinking-mode toggle of the open panel is clicked.
SetIsThinkingMode ==
    /\ isOpen
    /\ isThinkingMode' = ~isThinkingMode
    /\ UNCHANGED <<cfg, store, panel, result, origin, fin, fout, isOpen,
                   messages, input, isLoading, requests, notChat>>

\* The user edits the input field of the open panel.
SetInput ==
    \E text \in ChatInputs :
        /\ isOpen
        /\ input' = text
        /\ UNCHANGED <<cfg, store, panel, result, origin, fin, fout, isOpen,
                       messages, isLoading, isThinkingMode, requests,
                       notChat>>

\* A click on the send button, which is disabled while loading.
ClickSend ==
    /\ isOpen
    /\ ~isLoading
    /\ handleSend

\* handleKeyDown with the Enter key in the input field.
PressEnter ==
    /\ isOpen
    /\ handleSend

\* An awaited analyzeWithGemini call settles and handleSend resumes: the
\* model message and the loading flag, or nothing more if the await threw.
GeminiSettles ==
    \E i \in DOMAIN requests : \E outcome \in ApiOutcomes :
        LET r == analyzeWithGemini(outcome)
        IN  /\ requests' = SubSeq(requests, 1, i - 1) \o
                               SubSeq(requests, i + 1, Len(requests))
            /\ IF r.state = "fulfilled"
               THEN /\ messages' = AppendMessage(
                                       messages,
                                       [role |-> "model", text |-> r.value])
                    /\ isLoading' = FALSE
               ELSE UNCHANGED <<messages, isLoading>>
            /\ UNCHANGED <<cfg, store, panel, result, origin, fin, fout,
                           isOpen, input, isThinkingMode, notChat>>

\* ---------------------------------------------------------- specifications
\* The snapshot store under appends and materializations of any payload.
Init ==
    /\ cfg \in Configs
    /\ store = EmptyStore
    /\ panel = << >>
    /\ result = NotValidated
    /\ origin = "none"
    /\ now = MaxDate
    /\ NoWriters
    /\ NoHeap
    /\ NoApi
    /\ NoDash
    /\ NoHook
    /\ NoChat
    /\ fin = NoCall
    /\ fout = NotCalled

Next ==
    \/ AppendSnapshot(FetchedPayloads)
    \/ Materialize(FetchedPayloads)

Spec == Init /\ [][Next]_vars

\* The store together with its consumer: panels built, forged and validated.
NextPanel ==
    \/ AppendSnapshot(PanelPayloads)
    \/ Materialize(FetchedPayloads)
    \/ BuildPanel
    \/ ForgePanel
    \/ Validate

\* Panels are built under the default source priority and the largest
\* safety buffer.
InitPanel ==
    /\ cfg \in {c \in Configs : Len(c.priority) > 1 /\ c.buffer = MaxBuffer}
    /\ store = EmptyStore
    /\ panel = << >>
    /\ result = NotValidated
    /\ origin = "none"
    /\ now = MaxDate
    /\ NoWriters
    /\ NoHeap
    /\ NoApi
    /\ NoDash
    /\ NoHook
    /\ NoChat
    /\ fin = NoCall
    /\ fout = NotCalled

SpecPanel == InitPanel /\ [][NextPanel]_vars

\* The store under materializations and every read operation.
NextReads ==
    \/ Materialize(FetchedPayloads)
    \/ RepeatBuildPanel
    \/ ReadSymbol
    \/ Validate

SpecReads == InitPanel /\ [][NextReads]_vars

\* filter_to_cutoff as a pure function of its arguments.
InitFilter ==
    /\ cfg \in Configs
    /\ store = EmptyStore
    /\ panel = << >>
    /\ result = NotValidated
    /\ origin = "none"
    /\ now = MaxDate
    /\ NoWriters
    /\ NoHeap
    /\ NoApi
    /\ NoDash
    /\ NoHook
    /\ NoChat
    /\ fin \in [payload : Payloads, cutoff : Dates]
    /\ fout = NotCalled

NextFilter ==
    Filter

SpecFilter == InitFilter /\ [][NextFilter]_vars

\* compute_effective_date as a pure function of the period's metadata and
\* the configuration.
InitResolve ==
    /\ cfg \in ResolverConfigs
    /\ store = EmptyStore
    /\ panel = << >>
    /\ result = NotValidated
    /\ origin = "none"
    /\ now = MaxDate
    /\ NoWriters
    /\ NoHeap
    /\ NoApi
    /\ NoDash
    /\ NoHook
    /\ NoChat
    /\ fin \in ResolverInputs
    /\ fout = NotCalled

NextResolve ==
    ComputeEffectiveDate

SpecResolve == InitResolve /\ [][NextResolve]_vars

\* The store under a running clock: snapshots are appended and payloads
\* materialized on any day of the calendar.
Tick ==
    /\ now < MaxDate
    /\ now' = now + 1
    /\ UNCHANGED <<cfg, store, panel, result, origin, fin, fout, notClock>>

InitClock ==
    /\ cfg \in {c \in Configs : Len(c.priority) > 1}
    /\ store = EmptyStore
    /\ panel = << >>
    /\ result = NotValidated
    /\ origin = "none"
    /\ fin = NoCall
    /\ fout = NotCalled
    /\ now \in Dates
    /\ NoWriters
    /\ NoHeap
    /\ NoApi
    /\ NoDash
    /\ NoHook
    /\ NoChat

NextClock ==
    \/ AppendSnapshot(PanelPayloads)
    \/ Materialize(FetchedPayloads)
    \/ Tick

SpecClock == InitClock /\ [][NextClock]_vars

\* Two processes, each running one append_snapshot call, step by step.
InitConc ==
    /\ cfg \in {c \in Configs : Len(c.priority) > 1 /\ c.buffer = MaxBuffer}
    /\ store = EmptyStore
    /\ panel = << >>
    /\ result = NotValidated
    /\ origin = "none"
    /\ fin = NoCall
    /\ fout = NotCalled
    /\ now = MaxDate
    /\ NoWriters
    /\ NoHeap
    /\ NoApi
    /\ NoDash
    /\ NoHook
    /\ NoChat

NextConc ==
    \E p \in Procs :
        \/ StartAppend(p)
        \/ Acquire(p)
        \/ CheckExists(p)
        \/ WriteTemp(p)
        \/ WriteFails(p)
        \/ Publish(p)
        \/ ListForManifest(p)
        \/ SaveManifest(p)
        \/ Release(p)

SpecConc == InitConc /\ [][NextConc]_vars

\* One fetched payload in memory, filtered more than once, the results
\* modified by their holders.
InitCopy ==
    /\ cfg \in {c \in Configs : Len(c.priority) > 1 /\ c.buffer = MaxBuffer}
    /\ store = EmptyStore
    /\ panel = << >>
    /\ result = NotValidated
    /\ origin = "none"
    /\ fin \in [payload : ConcPayloads, cutoff : {0}]
    /\ fout = NotCalled
    /\ now = MaxDate
    /\ NoWriters
    /\ NoApi
    /\ NoDash
    /\ NoHook
    /\ NoChat
    /\ heap = [cells |-> CellsOf(fin.payload, cfg),
               src |-> 1..Cardinality(fin.payload.periods),
               outs |-> << >>]

NextCopy ==
    \/ FilterCopy
    \/ MutateField
    \/ MutateDelete

SpecCopy == InitCopy /\ [][NextCopy]_vars

\* Runs of the on-demand fetcher over the symbols.
InitIngest ==
    /\ cfg \in {c \in Configs : Len(c.priority) > 1 /\ c.buffer = MaxBuffer}
    /\ store = EmptyStore
    /\ panel = << >>
    /\ result = NotValidated
    /\ origin = "none"
    /\ fin = NoCall
    /\ fout = NotCalled
    /\ now = MaxDate
    /\ NoWriters
    /\ NoHeap
    /\ NoApi
    /\ NoDash
    /\ NoHook
    /\ NoChat

NextIngest ==
    EnsureSnapshots

SpecIngest == InitIngest /\ [][NextIngest]_vars

\* Direct calls of the materialization with every payload shape.
InitMaterialize ==
    /\ cfg \in Configs
    /\ store = EmptyStore
    /\ panel = << >>
    /\ result = NotValidated
    /\ origin = "none"
    /\ now = MaxDate
    /\ NoWriters
    /\ NoHeap
    /\ NoApi
    /\ NoDash
    /\ NoHook
    /\ NoChat
    /\ fin \in [payload : Payloads, cutoff : {0}]
    /\ fout = NotCalled

NextMaterialize ==
    MaterializeCall

SpecMaterialize == InitMaterialize /\ [][NextMaterialize]_vars

\* The report hook under renders, unmounts and the passing of time.
InitHook ==
    /\ cfg \in Configs
    /\ store = EmptyStore
    /\ panel = << >>
    /\ result = NotValidated
    /\ origin = "none"
    /\ fin = NoCall
    /\ fout = NotCalled
    /\ now = MaxDate
    /\ NoWriters
    /\ NoHeap
    /\ NoApi
    /\ NoDash
    /\ NoHook
    /\ NoChat

NextHook ==
    \/ Rerender
    \/ Unmount
    \/ Mount
    \/ TimePasses
    \/ FetchTimerFires

SpecHook == InitHook /\ [][NextHook]_vars

\* The chat under every use of its controls and every end of the API calls.
InitChat ==
    /\ cfg \in {c \in Configs : Len(c.priority) > 1 /\ c.buffer = MaxBuffer}
    /\ store = EmptyStore
    /\ panel = << >>
    /\ result = NotValidated
    /\ origin = "none"
    /\ fin = NoCall
    /\ fout = NotCalled
    /\ now = MaxDate
    /\ NoWriters
    /\ NoHeap
    /\ NoApi
    /\ NoDash
    /\ NoHook
    /\ NoChat

NextChat ==
    \/ SetIsOpen
    \/ SetIsThinkingMode
    \/ SetInput
    \/ ClickSend
    \/ PressEnter
    \/ GeminiSettles

SpecChat == InitChat /\ [][NextChat]_vars

\* The same when every API call ends, with a response or an error.
SpecChatFair ==
    SpecChat /\ WF_vars(GeminiSettles)

\* The same when time passes and elapsed timers run.
SpecHookFair ==
    SpecHook /\ WF_vars(TimePasses) /\ WF_vars(FetchTimerFires)

\* The dashboard under key saves, run clicks and timer completions.
InitDash ==
    /\ cfg \in {c \in Configs : Len(c.priority) > 1 /\ c.buffer = MaxBuffer}
    /\ store = EmptyStore
    /\ panel = << >>
    /\ result = NotValidated
    /\ origin = "none"
    /\ fin = NoCall
    /\ fout = NotCalled
    /\ now = MaxDate
    /\ NoWriters
    /\ NoHeap
    /\ NoApi
    /\ NoDash
    /\ NoHook
    /\ NoChat

NextDash ==
    \/ HandleSave
    \/ \E job \in Jobs : HandleRun(job)
    \/ \E job \in Jobs : TimerFires(job)

SpecDash == InitDash /\ [][NextDash]_vars

\* The same dashboard when every armed timer fires: setTimeout callbacks
\* run after their delay of at most three seconds.
SpecDashFair ==
    SpecDash /\ \A job \in Jobs : WF_vars(TimerFires(job))

\* ------------------------------------------------------------------ claims

\* C1: every populated cell of a panel returned by build_panel is attributed
\* to a snapshot whose effective date is not after the cell's observation
\* date, whatever appends (restatements, out-of-order) came before.
C1_NoLookAhead ==
    origin = "built" =>
        \A i \in DOMAIN panel :
            panel[i].populated => panel[i].eff <= panel[i].date

\* A built panel with a populated cell while the symbol already holds a
\* snapshot that only becomes effective after that cell's date.
C1_Witness ==
    /\ origin = "built"
    /\ \E i \in DOMAIN panel :
           /\ panel[i].populated
           /\ \E s \in store[panel[i].symbol] : s.eff > panel[i].date

\* C2: the payload of every stored snapshot holds only periods, of any
\* kind, published on or before the snapshot's own effective date.
C2_SnapshotHoldsNoFuturePeriod ==
    \A sym \in Symbols : \A s \in store[sym] : \A p \in s.payload.periods :
        /\ PublicationDate(p, s.payload.upd, cfg) # NoDate
        /\ PublicationDate(p, s.payload.upd, cfg) <= s.eff

\* Two snapshots of a symbol from one payload: the earlier one is not empty
\* and lacks a period of another kind that was filed after its effective
\* date and that the later one holds.
C2_Witness ==
    \E sym \in Symbols : \E s1 \in store[sym] : \E s2 \in store[sym] :
        /\ s1.eff < s2.eff
        /\ s1.payload.periods # {}
        /\ s1.payload.periods \subseteq s2.payload.periods
        /\ \E p \in s2.payload.periods \ s1.payload.periods :
               /\ p.pub > s1.eff
               /\ \E q \in s1.payload.periods : q.kind # p.kind

\* C3: append_snapshot never overwrites: a key stored before a step names
\* the same snapshot after it, and no key is ever stored twice, so a
\* repeated call leaves the one snapshot of the first call.
C3_KeyUnique ==
    \A sym \in Symbols : \A s \in store[sym] : \A t \in store[sym] :
        SnapshotKey(s) = SnapshotKey(t) => s = t

C3_KeptAsFirstWritten ==
    \A sym \in Symbols : \A u \in store'[sym] :
        (\E t \in store[sym] : SnapshotKey(t) = SnapshotKey(u))
            => u \in store[sym]

C3_IdempotentAppend ==
    []C3_KeyUnique /\ [][C3_KeptAsFirstWritten]_vars

\* A stored snapshot whose key a further call, with another payload, hits.
C3_Witness ==
    \E sym \in Symbols, payload \in FetchedPayloads, key \in TriggerKeys :
        LET r == Resolve(key[1], key[2], TriggerPub(payload, key[2], key[1]),
                         payload.upd, cfg)
            s == NewSnapshot(r, payload, key[2], key[1], cfg)
        IN  /\ r.status = "ok"
            /\ \E t \in store[sym] :
                   SnapshotKey(t) = SnapshotKey(s) /\ t.payload # s.payload

\* C4: the snapshot set is append-only: under appends, materializations,
\* panel builds and validations every stored snapshot stays stored as it is.
C4_AppendOnly ==
    [][\A sym \in Symbols : store[sym] \subseteq store'[sym]]_vars

\* A restatement next to the snapshot it restates: one period, two
\* effective dates, two payloads.
C4_Witness ==
    \E sym \in Symbols : \E s \in store[sym] : \E t \in store[sym] :
        /\ s.kind = t.kind /\ s.pend = t.pend
        /\ s.eff < t.eff
        /\ s.payload # t.payload

\* C5: monotonic accumulation: of two snapshots of a symbol, the periods
\* the earlier one holds as published by its effective date are all periods
\* (by kind and period end) of the later one, whatever payloads the
\* append_snapshot calls were given.
C5_MonotonicAccumulation ==
    \A sym \in Symbols : \A s1 \in store[sym] : \A s2 \in store[sym] :
        s1.eff < s2.eff =>
            \A p \in s1.payload.periods :
                (/\ PublicationDate(p, s1.payload.upd, cfg) # NoDate
                 /\ PublicationDate(p, s1.payload.upd, cfg) <= s1.eff)
                    => \E q \in s2.payload.periods :
                           PeriodKey(q) = PeriodKey(p)

\* C6: filter_to_cutoff returns the periods of the payload, of any kind,
\* published on or before the cutoff and no other: a period with a filing
\* date is kept exactly when that date is <= cutoff, a period without one
\* only when it can be dated <= cutoff; period ends play no part, and
\* when nothing qualifies the result is the payload with no periods.
C6_FilterExact ==
    fout.called =>
        /\ fout.payload.upd = fin.payload.upd
        /\ fout.payload.periods \subseteq fin.payload.periods
        /\ \A p \in fin.payload.periods :
               p.pub # NoDate =>
                   (p \in fout.payload.periods <=> p.pub <= fin.cutoff)
        /\ \A p \in fout.payload.periods :
               p.pub = NoDate =>
                   LET r == Resolve(p.kind, p.pend, NoDate, fin.payload.upd, cfg)
                   IN  r.status = "ok" /\ r.date <= fin.cutoff

\* A call on a payload whose period with the earlier period end was filed
\* after the cutoff and whose period with the later period end was filed
\* by it: only the latter is returned.
C6_Witness ==
    /\ fout.called
    /\ \E p \in fin.payload.periods : \E q \in fin.payload.periods :
           /\ p.pend < q.pend
           /\ p.kind # q.kind
           /\ q.pub # NoDate /\ q.pub <= fin.cutoff
           /\ p.pub > fin.cutoff
           /\ fout.payload.periods = {q}

C8_ValidateExact ==
    result # NotValidated =>
        LET bad == {i \in DOMAIN panel :
                       panel[i].populated /\ panel[i].eff > panel[i].date}
            Names(o, i) ==
                /\ o.symbol = panel[i].symbol
                /\ o.date = panel[i].date
                /\ o.snapshot_effective_date = panel[i].eff
        IN  /\ result.kind \in {"Ok", "LookAheadViolation"}
            /\ result.kind = "Ok" <=> bad = {}
            /\ result.kind = "LookAheadViolation" =>
                   /\ Len(result.rows) \in {1, Cardinality(bad)}
                   /\ \A k \in DOMAIN result.rows :
                          \E i \in bad : Names(result.rows[k], i)
                   /\ \E i \in bad :
                          /\ \A j \in bad : i <= j
                          /\ Names(result.rows[1], i)

\* A forged panel whose first row is sound and whose second row claims a
\* future effective date: validate has failed and names the second row.
C8_Witness ==
    /\ origin = "forged"
    /\ result.kind = "LookAheadViolation"
    /\ Len(panel) = 2
    /\ panel[1].eff <= panel[1].date
    /\ panel[2].eff > panel[2].date
    /\ result.rows[1].snapshot_effective_date = panel[2].eff

C10_Attributed(row, sym, e) ==
    /\ row.populated
    /\ row.eff = e
    /\ \E t \in store[sym] :
           /\ t.eff = e
           /\ row.kind = t.kind /\ row.pend = t.pend
           /\ row.payload = t.payload

C10_Windows(p) ==
    \A sym \in Symbols : \A s1 \in store[sym] : \A s2 \in store[sym] :
        (/\ s1.eff < s2.eff
         /\ \A t \in store[sym] : ~(s1.eff < t.eff /\ t.eff < s2.eff))
            => \A i \in DOMAIN p :
                   p[i].symbol = sym =>
                       /\ (s1.eff <= p[i].date /\ p[i].date < s2.eff)
                              => C10_Attributed(p[i], sym, s1.eff)
                       /\ p[i].date = s2.eff
                              => C10_Attributed(p[i], sym, s2.eff)

C10_HalfOpenWindow ==
    [][(store' = store /\ origin' = "built" /\ result' = NotValidated)
           => C10_Windows(panel')]_vars

\* A built panel with, for one symbol, a row on the eve of the second
\* snapshot's effective date holding the first snapshot and a row on that
\* date holding the second.
C10_Witness ==
    /\ origin = "built"
    /\ \E i \in DOMAIN panel : \E j \in DOMAIN panel :
           /\ panel[i].symbol = panel[j].symbol
           /\ panel[j].date = panel[i].date + 1
           /\ panel[i].populated /\ panel[j].populated
           /\ panel[i].eff < panel[j].eff
           /\ panel[j].eff = panel[j].date
           /\ \E s1 \in store[panel[i].symbol] :
                  \E s2 \in store[panel[i].symbol] :
                      /\ s1.eff = panel[i].eff /\ s2.eff = panel[j].eff
                      /\ panel[i].payload = s1.payload
                      /\ panel[j].payload = s2.payload

\* C11: restatement preserves history: when snapshots are appended to a
\* symbol (a restatement of a period already seen, a force refresh), every
\* observation date earlier than the effective dates of the new snapshots
\* gets from build_panel the row it got before.
C11_RestatementPreservesHistory ==
    [][\A sym \in Symbols :
           LET before == list_snapshots(store[sym])
               after == list_snapshots(store'[sym])
           IN  store'[sym] # store[sym] =>
                   \A d \in Dates :
                       (\A s \in store'[sym] \ store[sym] : d < s.eff)
                           => PanelRow(after, sym, d)
                                  = PanelRow(before, sym, d)]_vars

\* A panel built before a restatement: it shows a period on a date before
\* the effective date of a restatement of that period now in the store,
\* and a rebuild returns that row again.
C11_Witness ==
    /\ origin = "built"
    /\ \E i \in DOMAIN panel :
           /\ panel[i].populated
           /\ \E s \in store[panel[i].symbol] :
                  /\ s.kind = panel[i].kind /\ s.pend = panel[i].pend
                  /\ s.eff > panel[i].date
                  /\ s.payload # panel[i].payload
           /\ panel[i] = PanelRow(list_snapshots(store[panel[i].symbol]),
                                   panel[i].symbol, panel[i].date)

\* C12: an append_snapshot whose effective date differs from, and may be
\* earlier than, that of a stored snapshot of the same symbol, kind and
\* period end is accepted: after the call the stored snapshot and one
\* under the new effective date are both in the store.
C12_OutOfOrderAccepted ==
    \A sym \in Symbols, payload \in FetchedPayloads, key \in TriggerKeys :
        LET r == Resolve(key[1], key[2], TriggerPub(payload, key[2], key[1]),
                         payload.upd, cfg)
            after == append_snapshot(store[sym], payload, key[2], key[1], cfg)
        IN  r.status = "ok" =>
                \A t \in store[sym] :
                    (t.kind = key[1] /\ t.pend = key[2] /\ t.eff # r.date)
                        => /\ t \in after
                           /\ \E u \in after :
                                  /\ SnapshotKey(u) = <<r.date, key[1], key[2]>>
                                  /\ u # t

\* Two snapshots of one period dated by different sources: the one by
\* reported date and the earlier-effective one by period end plus lag.
C12_Witness ==
    \E sym \in Symbols : \E s \in store[sym] : \E t \in store[sym] :
        /\ s.kind = t.kind /\ s.pend = t.pend
        /\ s.eff < t.eff
        /\ s.source = "period_end_plus_lag"
        /\ t.source = "reported_date"

\* C13: the resolver takes its base date from the first source of the
\* configured priority order that the period has (reported date, payload
\* updated-at, period end plus the lag of the kind); no source that comes
\* later in the list is used while an earlier one is present, and the
\* result names the source used.
C13_FirstApplicableSource ==
    (fout.called /\ fout.result.status = "ok") =>
        LET Has(src) ==
                \/ src = "reported_date" /\ fin.pub # NoDate
                \/ src = "payload_updated_at" /\ fin.upd # NoDate
                \/ src = "period_end_plus_lag" /\ fin.pend # NoDate
            Base(src) ==
                IF src = "reported_date" THEN fin.pub
                ELSE IF src = "payload_updated_at" THEN fin.upd
                ELSE NextBusinessDay(fin.pend + cfg.lag[fin.kind])
        IN  \E i \in 1..Len(cfg.priority) :
                /\ fout.result.source = cfg.priority[i]
                /\ Has(cfg.priority[i])
                /\ \A j \in 1..(i - 1) : ~Has(cfg.priority[j])
                /\ fout.result.date
                       = AddBusinessDays(Base(cfg.priority[i]), cfg.buffer)

\* A period with both a reported date and an updated-at stamp, resolved
\* under a list that puts updated-at first: updated-at is the source.
C13_Witness ==
    /\ fout.called
    /\ fin.pub # NoDate /\ fin.upd # NoDate /\ fin.pub # fin.upd
    /\ cfg.priority = <<"payload_updated_at", "reported_date">>
    /\ fout.result.source = "payload_updated_at"

C15_ConfigurationError ==
    fout.called =>
        LET bad == \/ cfg.priority = << >>
                   \/ \E i \in 1..Len(cfg.priority) :
                          cfg.priority[i] \notin
                              {"reported_date", "payload_updated_at",
                               "period_end_plus_lag"}
        IN  /\ bad => /\ fout.result.status = "ConfigurationError"
                      /\ fout.result.date = NoDate
            /\ ~bad => fout.result.status # "ConfigurationError"

\* A list naming an unknown source after reported_date, on a period that
\* has a reported date: the call failed with ConfigurationError.
C15_Witness ==
    /\ fout.called
    /\ Len(cfg.priority) = 2
    /\ cfg.priority[2] \notin Sources
    /\ fin.pub # NoDate
    /\ fout.result.status = "ConfigurationError"

\* C16: under a valid priority list the resolver never returns a null
\* date: it returns a date when some listed source is present on the
\* period, and fails with InsufficientMetadataError when none is (the
\* period end is missing, or the list holds only absent sources).
C16_NeverNullDate ==
    (/\ fout.called
     /\ cfg.priority # << >>
     /\ \A i \in 1..Len(cfg.priority) : cfg.priority[i] \in Sources) =>
        LET Has(src) ==
                \/ src = "reported_date" /\ fin.pub # NoDate
                \/ src = "payload_updated_at" /\ fin.upd # NoDate
                \/ src = "period_end_plus_lag" /\ fin.pend # NoDate
            some == \E i \in 1..Len(cfg.priority) : Has(cfg.priority[i])
        IN  /\ some => (/\ fout.result.status = "ok"
                        /\ fout.result.date # NoDate
                        /\ fout.result.date \in Nat)
            /\ ~some => (/\ fout.result.status = "InsufficientMetadataError"
                         /\ fout.result.date = NoDate)

\* The default list on a period without period end, reported date and
\* updated-at stamp: the call failed with InsufficientMetadataError.
C16_Witness ==
    /\ fout.called
    /\ Len(cfg.priority) = 3
    /\ fin.pend = NoDate /\ fin.pub = NoDate /\ fin.upd = NoDate
    /\ fout.result.status = "InsufficientMetadataError"

\* C17: when snapshots of a symbol share an effective date, the rows that
\* build_panel attributes to that date carry the snapshot with the most
\* recent period end among them, in whatever order they were appended.
C17_Rows(p) ==
    \A i \in DOMAIN p :
        p[i].populated =>
            \A t \in store[p[i].symbol] :
                t.eff = p[i].eff =>
                    /\ t.pend <= p[i].pend
                    /\ (t.pend = p[i].pend /\ t.kind = p[i].kind)
                           => p[i].payload = t.payload

C17_LatestPeriodEndWins ==
    [][(store' = store /\ origin' = "built" /\ result' = NotValidated)
           => C17_Rows(panel')]_vars

\* A built panel with a row carrying the later period end of two
\* snapshots, of different kinds and payloads, effective on the same day.
C17_Witness ==
    /\ origin = "built"
    /\ \E i \in DOMAIN panel :
           /\ panel[i].populated
           /\ \E t \in store[panel[i].symbol] :
                  /\ t.eff = panel[i].eff
                  /\ t.pend < panel[i].pend
                  /\ t.kind # panel[i].kind
                  /\ t.payload # panel[i].payload

\* C18: build_panel leaves every observation date before the first
\* effective date of the symbol unpopulated, with no values at all, and
\* populates the dates from it on; a symbol without snapshots gets only
\* unpopulated cells.
C18_Rows(p) ==
    \A i \in DOMAIN p :
        LET known == {s \in store[p[i].symbol] : s.eff <= p[i].date}
        IN  /\ p[i].populated <=> known # {}
            /\ known = {} =>
                   /\ p[i].eff = NoDate
                   /\ p[i].pend = NoDate
                   /\ p[i].payload.periods = {}

C18_UnpopulatedBeforeFirst ==
    [][(store' = store /\ origin' = "built" /\ result' = NotValidated)
           => C18_Rows(panel')]_vars

\* A built panel over two symbols: one has snapshots and an unpopulated
\* row followed by a populated one, the other has no snapshot and a row.
C18_Witness ==
    /\ origin = "built"
    /\ \E i \in DOMAIN panel : \E j \in DOMAIN panel :
           /\ panel[i].symbol = panel[j].symbol
           /\ panel[i].date < panel[j].date
           /\ ~panel[i].populated
           /\ panel[j].populated
    /\ \E k \in DOMAIN panel :
           store[panel[k].symbol] = {} /\ ~panel[k].populated

\* C19: list_snapshots of a symbol returns each stored snapshot of the
\* symbol once and nothing else, in ascending order of effective date,
\* whatever order the snapshots were appended in.
C19_ListAscending ==
    \A sym \in Symbols :
        LET l == list_snapshots(store[sym])
        IN  /\ Len(l) = Cardinality(store[sym])
            /\ {l[i] : i \in DOMAIN l} = store[sym]
            /\ \A i \in DOMAIN l : \A j \in DOMAIN l :
                   i < j => l[i].eff <= l[j].eff

\* A symbol whose snapshot of the later period end is effective before its
\* snapshot of the earlier period end, listed in that order.
C19_Witness ==
    \E sym \in Symbols :
        LET l == list_snapshots(store[sym])
        IN  /\ Len(l) = 2
            /\ l[1].eff < l[2].eff
            /\ l[1].pend > l[2].pend

\* C20: get_manifest agrees with the snapshot set of the symbol: its count
\* is the number of stored snapshots, its earliest and latest effective
\* dates are their minimum and maximum, and each of its entries is a
\* stored snapshot.
C20_ManifestAgrees ==
    \A sym \in Symbols :
        LET m == get_manifest(store[sym])
        IN  /\ m.count = Cardinality(store[sym])
            /\ Len(m.entries) = m.count
            /\ \A i \in DOMAIN m.entries :
                   \E s \in store[sym] :
                       /\ SnapshotKey(s) = <<m.entries[i].eff,
                                             m.entries[i].kind,
                                             m.entries[i].pend>>
                       /\ s.source = m.entries[i].source
            /\ store[sym] = {} => (m.earliest = NoDate /\ m.latest = NoDate)
            /\ store[sym] # {} =>
                   /\ \E s \in store[sym] : s.eff = m.earliest
                   /\ \E s \in store[sym] : s.eff = m.latest
                   /\ \A s \in store[sym] :
                          m.earliest <= s.eff /\ s.eff <= m.latest

\* A symbol with a restated period: the manifest counts both snapshots and
\* spans their two effective dates.
C20_Witness ==
    \E sym \in Symbols : \E s \in store[sym] : \E t \in store[sym] :
        /\ s.kind = t.kind /\ s.pend = t.pend
        /\ get_manifest(store[sym]).count = 2
        /\ get_manifest(store[sym]).earliest = s.eff
        /\ get_manifest(store[sym]).latest = t.eff
        /\ s.eff < t.eff

\* C21: no snapshot is written with an effective date later than the
\* current date at the time of the write: every snapshot a step adds to
\* the store is effective on or before the day the step is taken.
C21_NoFutureDatedWrite ==
    [][\A sym \in Symbols :
           \A s \in store'[sym] \ store[sym] : s.eff <= now]_vars

\* C22: concurrent append_snapshot calls for one symbol are serialized:
\* no step removes or replaces a stored snapshot, and once the calls have
\* returned the snapshot set of each symbol is what the calls that did not
\* fail give when run one after the other in some order (identical calls
\* leave one snapshot), and the saved manifest indexes exactly that set.
RECURSIVE C22_InOrder(_, _)
C22_InOrder(order, snaps) ==
    IF order = << >> THEN snaps
    ELSE C22_InOrder(Tail(order),
                     WriteSnapshot(snaps, writers[Head(order)].snap))

C22_Returned ==
    /\ \A p \in Procs : writers[p].pc \in {"idle", "done"}
    /\ \A sym \in Symbols :
           LET Q == {p \in Procs :
                        /\ writers[p].sym = sym
                        /\ writers[p].outcome \in {"written", "exists"}}
               orders == {o \in [1..Cardinality(Q) -> Q] :
                             \A i, j \in DOMAIN o : o[i] = o[j] => i = j}
           IN  /\ \E o \in orders : store[sym] = C22_InOrder(o, {})
               /\ saved[sym].count = Cardinality(store[sym])
               /\ {<<saved[sym].entries[i].eff, saved[sym].entries[i].kind,
                      saved[sym].entries[i].pend>> :
                        i \in DOMAIN saved[sym].entries}
                      = {SnapshotKey(t) : t \in store[sym]}

C22_Serialized ==
    /\ []((\A p \in Procs : writers[p].pc \in {"idle", "done"})
              => C22_Returned)
    /\ [][\A sym \in Symbols : store[sym] \subseteq store'[sym]]_vars

\* Both processes have returned from calls for the same symbol and the
\* same key with different payloads: one wrote, the other found the key.
C22_Witness ==
    /\ \A p \in Procs : writers[p].pc = "done"
    /\ writers["w1"].sym = writers["w2"].sym
    /\ SnapshotKey(writers["w1"].snap) = SnapshotKey(writers["w2"].snap)
    /\ writers["w1"].snap # writers["w2"].snap
    /\ {writers["w1"].outcome, writers["w2"].outcome} = {"written", "exists"}

\* C23: a snapshot write is atomic for readers: at every moment of
\* concurrent appends, each snapshot list_snapshots returns is a whole
\* snapshot - key, source and payload as a call that has reached its
\* publication computed them - and a snapshot still being written is not
\* listed at all.
C23_AtomicForReaders ==
    \A sym \in Symbols :
        LET l == list_snapshots(store[sym])
        IN  \A i \in DOMAIN l :
                /\ l[i].source \in Sources
                /\ \E p \in Procs :
                       /\ writers[p].sym = sym
                       /\ writers[p].snap = l[i]
                       /\ writers[p].pc \in {"list", "save", "release", "done"}

\* One process has written its temporary file and not yet published it:
\* its snapshot is not listed, the published snapshot of the other is.
C23_Witness ==
    \E p \in Procs : \E q \in Procs :
        /\ writers[p].pc = "publish"
        /\ writers[p].snap.payload.periods # {}
        /\ writers[q].sym = writers[p].sym
        /\ store[writers[p].sym] = {writers[q].snap}
        /\ SnapshotKey(writers[q].snap) # SnapshotKey(writers[p].snap)

\* C24: an append for one symbol leaves the snapshots and the manifest of
\* every other symbol as they are, and a call waiting for its symbol can
\* always go on while the only calls in progress are for other symbols.
C24_NotBlocked ==
    \A p \in Procs :
        (/\ writers[p].pc = "lock"
         /\ \A q \in Procs \ {p} : writers[q].sym # writers[p].sym)
            => ENABLED Acquire(p)

C24_OwnSymbolOnly ==
    \A sym \in Symbols :
        (store'[sym] # store[sym] \/ saved'[sym] # saved[sym])
            => \E p \in Procs :
                   /\ writers[p].sym = sym
                   /\ writers'[p] # writers[p]
                   /\ \A q \in Procs \ {p} : writers'[q] = writers[q]

C24_SymbolsIndependent ==
    []C24_NotBlocked /\ [][C24_OwnSymbolOnly]_vars

\* Two calls in progress at once, each holding the lock of its symbol,
\* one of them with its snapshot published.
C24_Witness ==
    /\ lock["AAA"] # Free
    /\ lock["BBB"] # Free
    /\ lock["AAA"] # lock["BBB"]
    /\ store["AAA"] # {}
    /\ store["BBB"] = {}

\* C25: when persistence fails during append_snapshot the call ends with
\* StorageError for its caller after that one write attempt, without
\* trying again, and the step of the failure leaves the snapshot sets and
\* manifests as they were; no call makes more than one write attempt.
C25_OneAttempt ==
    \A p \in Procs :
        /\ writers[p].attempts <= 1
        /\ writers[p].outcome = "StorageError" =>
               /\ writers[p].attempts = 1
               /\ writers[p].pc \in {"release", "done"}

C25_FailureStep ==
    \A p \in Procs :
        (writers[p].pc = "write" /\ writers'[p] # writers[p]) =>
            \/ writers'[p].pc = "publish" /\ writers'[p].outcome = "none"
            \/ /\ writers'[p].outcome = "StorageError"
               /\ writers'[p].pc = "release"
               /\ store' = store
               /\ saved' = saved

C26_SourceIntact ==
    Deref(heap.cells, heap.src) = fin.payload.periods

C26_OneAtATime ==
    \A k \in DOMAIN heap.outs :
        Deref(heap'.cells, heap'.outs[k]) # Deref(heap.cells, heap.outs[k])
            => /\ Deref(heap'.cells, heap'.src) = Deref(heap.cells, heap.src)
               /\ \A j \in DOMAIN heap.outs \ {k} :
                      Deref(heap'.cells, heap'.outs[j])
                          = Deref(heap.cells, heap.outs[j])

C26_IndependentCopy ==
    []C26_SourceIntact /\ [][C26_OneAtATime]_vars

\* Two payloads filtered from one source to the same periods; a figure of
\* the second was changed: the first and the source still show the
\* original.
C26_Witness ==
    /\ Len(heap.outs) = 2
    /\ Cardinality(heap.outs[1]) = Cardinality(heap.outs[2])
    /\ heap.outs[1] # {}
    /\ Deref(heap.cells, heap.outs[1]) \subseteq fin.payload.periods
    /\ \E i \in heap.outs[2] : heap.cells[i] \notin fin.payload.periods

\* C27: on-demand ingestion is lazy: ensure_snapshots calls the API only
\* when force_refresh is set or the symbol holds fewer than
\* min_periods_required snapshots; otherwise it makes no call and adds
\* no snapshot, and each ensure_snapshots makes at most one call.
C27_LazyIngestion ==
    [][api'.last # NoEnsure =>
           LET sym == api'.last.sym
               enough == Cardinality(store[sym]) >= MinPeriodsRequired
           IN  /\ api'.calls \in {api.calls, api.calls + 1}
               /\ api'.calls # api.calls
                      => (api'.last.force \/ ~enough)
               /\ api'.calls = api.calls
                      => (store' = store /\ (api' = api \/ enough))
               /\ api'.last.fetched <=> api'.calls # api.calls]_vars

\* After one API call the symbol has enough snapshots, and the latest
\* ensure_snapshots for it, without force_refresh, made no call.
C27_Witness ==
    /\ api.calls = 1
    /\ api.last.sym \in Symbols
    /\ ~api.last.force
    /\ ~api.last.fetched
    /\ Cardinality(store[api.last.sym]) >= MinPeriodsRequired


\* What the runner requires before a job may be started.
C28_Prerequisite(job) ==
    CASE job = "ingest" -> isKeySet
      [] job = "train" -> status["ingest"] = "completed"
      [] job = "backtest" -> status["train"] = "completed"
      [] job = "report" -> status["backtest"] = "completed"

C28_EnabledOnlyWhenReady ==
    \A job \in Jobs :
        ~getButtonState(status, isKeySet, job).disabled =>
            status[job] # "running" /\ C28_Prerequisite(job)

C28_StartedOnlyWhenReady ==
    \A job \in Jobs :
        (status[job] # "running" /\ status'[job] = "running") =>
            C28_Prerequisite(job)

\* C28: the run button of a job is enabled only when the job is not running
\* and its prerequisite holds in the current status (ingest: the key is set;
\* train: ingest completed; backtest: train completed; report: backtest
\* completed), and a job goes to running only from such a state.
C28_PipelineGating ==
    []C28_EnabledOnlyWhenReady /\ [][C28_StartedOnlyWhenReady]_vars

\* Every job but ingest was started, the report job last, while each
\* upstream job was completed.
C28_Witness ==
    /\ status["report"] = "running"
    /\ timers["report"].pending
    /\ timers["report"].status["backtest"] = "completed"
    /\ status["train"] = "completed"
    /\ status["ingest"] = "completed"

\* C29: at most one of the four jobs has status running at any time.
C29_AtMostOneRunning ==
    Cardinality({job \in Jobs : status[job] = "running"}) <= 1


\* The periods of the materialized payload that can be dated.
C30_Datable ==
    {p \in fin.payload.periods :
        PublicationDate(p, fin.payload.upd, cfg) # NoDate}

\* The publication date of the period a created snapshot was made for.
C30_PubOf(s) ==
    LET p == CHOOSE q \in fin.payload.periods :
                 PeriodKey(q) = <<s.kind, s.pend>>
    IN  PublicationDate(p, fin.payload.upd, cfg)

\* C30: materialization of one fetched payload on an empty store creates
\* one snapshot per datable period, in ascending publication date order
\* (not period_end order), each holding exactly the periods published up
\* to its period's publication date; so the k-th snapshot created holds
\* the k earliest-published periods, periods of equal date together.
C30_FilingDateOrder ==
    (fout.called /\ "created" \in DOMAIN fout) =>
        LET created == fout.created
            n == Len(created)
        IN  /\ n = Cardinality(C30_Datable)
            /\ \A k \in 1..n : Cardinality(created[k]) = 1
            /\ \A k \in 1..n : \A s \in created[k] :
                   /\ \E p \in C30_Datable : PeriodKey(p) = <<s.kind, s.pend>>
                   /\ s.payload.periods =
                          {q \in C30_Datable :
                              PublicationDate(q, fin.payload.upd, cfg)
                                  <= C30_PubOf(s)}
                   /\ Cardinality(s.payload.periods) >= k
            /\ \A j \in 1..n : \A k \in 1..n :
                   j < k =>
                       \A s \in created[j] : \A t \in created[k] :
                           /\ C30_PubOf(s) <= C30_PubOf(t)
                           /\ <<s.kind, s.pend>> # <<t.kind, t.pend>>
                           /\ s.payload.periods \subseteq t.payload.periods
            /\ store[fout.sym] = UNION {created[k] : k \in 1..n}

\* Two snapshots were created, the first for the period with the later
\* period end, which was published first and is alone in its snapshot.
C30_Witness ==
    /\ fout.called
    /\ "created" \in DOMAIN fout
    /\ Len(fout.created) = 2
    /\ \E s \in fout.created[1] : \E t \in fout.created[2] :
           /\ s.pend > t.pend
           /\ C30_PubOf(s) < C30_PubOf(t)
           /\ Cardinality(s.payload.periods) = 1
           /\ Cardinality(t.payload.periods) = 2


C31_Finished(job) ==
    status[job] \in {"completed", "failed"}

\* A running job has its timer pending, and only a job with its button
\* enabled has none to wait for.
C31_RunningHasTimer ==
    \A job \in Jobs : status[job] = "running" <=> timers[job].pending

\* A job becomes running by a click that arms its timer, and leaves
\* running only when that timer fires, to completed or failed.
C31_OnlyThroughTimer ==
    \A job \in Jobs :
        /\ (status[job] # "running" /\ status'[job] = "running") =>
               (~timers[job].pending /\ timers'[job].pending)
        /\ (status[job] = "running" /\ status'[job] # "running") =>
               /\ timers[job].pending
               /\ ~timers'[job].pending
               /\ status'[job] \in {"completed", "failed"}

\* C31: every started dashboard job terminates: handleRun sets the job to
\* running, while running its status changes only through its timer, which
\* makes it completed or failed, and no job stays running forever when
\* timers fire.
C31_JobsTerminate ==
    /\ []C31_RunningHasTimer
    /\ [][C31_OnlyThroughTimer]_vars
    /\ \A job \in Jobs : (status[job] = "running") ~> C31_Finished(job)

\* A job that was started and failed while another one is still running.
C31_Witness ==
    /\ status["train"] = "failed"
    /\ status["ingest"] = "running"
    /\ timers["ingest"].pending
    /\ ~timers["train"].pending


\* C32: a job finishes completed only if its prerequisite holds at the
\* moment it finishes (ingest: the key is set; train: ingest completed;
\* backtest: train completed; report: backtest completed); otherwise it
\* finishes failed.
C32_CompletedOnlyIfPrerequisite ==
    [][\A job \in Jobs :
           (status[job] = "running" /\ status'[job] = "completed") =>
               C28_Prerequisite(job)]_vars

\* Only after a report job has finished completed.
C33_ShownByReportOnly ==
    (~showReport /\ showReport') =>
        /\ status["report"] = "running"
        /\ status'["report"] = "completed"

C33_StaysVisible ==
    showReport => showReport'

\* C33: the report becomes visible only in the step in which a report job
\* finishes completed, never before and never through another job, and
\* once visible it stays visible whatever is re-run or fails afterwards.
C33_ReportVisibility ==
    /\ [](showReport =>
              \A job \in Jobs : status[job] # "idle" /\ isKeySet)
    /\ [][C33_ShownByReportOnly /\ C33_StaysVisible]_vars

\* The report is visible although training, run again afterwards, has
\* failed and the report job is running once more.
C33_Witness ==
    /\ showReport
    /\ status["train"] = "failed"
    /\ status["report"] = "running"


C34_Loaded ==
    data = mockData /\ ~loading

\* Data is never shown as loading, and a timer is pending only for the
\* effect of the current render of a mounted component that fetches.
C34_Consistent ==
    /\ data # NoData => ~loading
    /\ \A t \in pending :
           mounted /\ shouldFetch /\ t.id = nextTimer - 1

\* A render that turns shouldFetch on starts loading without data, and
\* data is set only by the timer of the render still in effect.
C34_Step ==
    /\ (mounted' /\ shouldFetch' /\ ~(mounted /\ shouldFetch)) =>
           (loading' /\ data' = NoData)
    /\ (data' # NoData /\ data = NoData) =>
           /\ mounted /\ shouldFetch /\ mounted' /\ shouldFetch'
           /\ \E t \in pending : t.id = nextTimer - 1 /\ t \notin pending'

\* C34: when shouldFetch becomes true, loading becomes true and data null;
\* if it stays true, eventually data is the mock report and loading is
\* false; data non-null implies not loading in every state; and a timer
\* pending when shouldFetch changes or the component unmounts is cancelled
\* and never sets data.
C34_MockFetch ==
    /\ []C34_Consistent
    /\ [][C34_Step]_vars
    /\ (mounted /\ shouldFetch) ~>
           (C34_Loaded \/ ~shouldFetch \/ ~mounted)

\* A fetch was cancelled before its delay elapsed: shouldFetch went back
\* to false, the timer of that render is gone, and no data was set.
C34_Witness ==
    /\ mounted
    /\ ~shouldFetch
    /\ loading
    /\ data = NoData
    /\ pending = {}
    /\ nextTimer = 2


C35_OneInFlight ==
    Len(requests) <= 1

\* A user message or a request appears only by an accepted send, which
\* appends exactly that one message, clears the input and makes one call;
\* with a blank input or while loading nothing is sent.
C35_SendStep ==
    LET sent == \/ Len(requests') > Len(requests)
                \/ /\ Len(messages') > Len(messages)
                   /\ messages'[Len(messages')].role = "user"
    IN  /\ sent =>
               /\ input \notin {"", " "}
               /\ ~isLoading
               /\ messages' = Append(messages,
                                     [role |-> "user", text |-> input])
               /\ input' = ""
               /\ isLoading'
               /\ requests' = Append(requests,
                                     [prompt |-> input,
                                      isThinkingMode |-> isThinkingMode])
        /\ (input \in {"", " "} \/ isLoading) => ~sent

\* C35: handleSend does nothing when the input is empty or blank or while
\* a request is loading; so at most one analyzeWithGemini request is in
\* flight at any time, by button or by Enter key, and each accepted send
\* appends exactly one user message and clears the input.
C35_SingleSend ==
    []C35_OneInFlight /\ [][C35_SendStep]_vars

\* A second question was sent and is awaited, and the user has typed the
\* next one, which Enter would send but for the loading flag.
C35_Witness ==
    /\ isOpen
    /\ isLoading
    /\ input = "hi"
    /\ Len(requests) = 1
    /\ Len(messages) = 3

\* Every call fulfils, and a reply is awaited exactly while one call is
\* in flight.
C36_Awaited ==
    /\ \A outcome \in ApiOutcomes :
           analyzeWithGemini(outcome).state = "fulfilled"
    /\ isLoading <=> Len(requests) = 1

\* When a call settles, exactly one model message follows and the
\* loading flag is cleared.
C36_SettleStep ==
    Len(requests') < Len(requests) =>
        /\ Len(messages') = Len(messages) + 1
        /\ SubSeq(messages', 1, Len(messages)) = messages
        /\ messages'[Len(messages')].role = "model"
        /\ ~isLoading'

\* C36: analyzeWithGemini never rejects, it returns an error-message
\* string when the Gemini call fails; so every accepted send is eventually
\* followed by exactly one model message and isLoading returns to false,
\* also on API failure.
C36_AlwaysAnswered ==
    /\ []C36_Awaited
    /\ [][C36_SettleStep]_vars
    /\ isLoading ~> ~isLoading
    /\ \A n \in 1..MaxSends :
           (Len(messages) = 2 * n - 1) ~> (Len(messages) = 2 * n)

\* The API call of the second question failed and the error text was
\* appended as the model's message.
C36_Witness ==
    /\ Len(messages) = 4
    /\ ~isLoading
    /\ messages[4].role = "model"
    /\ messages[4].text # "response.text"
    /\ requests = << >>

C40_Alternates ==
    /\ \A k \in DOMAIN messages :
           messages[k].role = IF k % 2 = 1 THEN "user" ELSE "model"
    /\ isLoading <=> Len(messages) % 2 = 1

C40_AppendOnly ==
    /\ Len(messages') >= Len(messages)
    /\ SubSeq(messages', 1, Len(messages)) = messages

\* C40: the transcript alternates user, model, user, model, ... starting
\* with a user message, has odd length exactly while a request is loading
\* and even length otherwise, and messages are only appended, never
\* removed or reordered.
C40_Transcript ==
    []C40_Alternates /\ [][C40_AppendOnly]_vars

\* Two exchanges are complete, with different questions' answers, and
\* nothing is awaited.
C40_Witness ==
    /\ Len(messages) = 4
    /\ ~isLoading
    /\ messages[1].role = "user"
    /\ messages[2].role = "model"
    /\ messages[2].text # messages[4].text
    /\ messages[3].role = "user"


\* The job a job waits for, ingest having none.
C37_Upstream(job) ==
    CASE job = "train" -> "ingest"
      [] job = "backtest" -> "train"
      [] job = "report" -> "backtest"

\* C37: in every reachable dashboard state a completed job has its
\* upstream job completed as well (report: backtest, backtest: train,
\* train: ingest), also after jobs are re-run.
C37_PrefixConsistency ==
    \A job \in Jobs \ {"ingest"} :
        status[job] = "completed" => status[C37_Upstream(job)] = "completed"

\* C38: only the train job ever reaches status failed; ingest, backtest
\* and report are failed in no reachable state.
C38_OnlyTrainFails ==
    \A job \in Jobs \ {"train"} : status[job] # "failed"

\* Each of ingest, backtest and report has been run to its end, the
\* report twice, and train alone, re-run, has failed.
C38_Witness ==
    /\ status["ingest"] = "completed"
    /\ status["backtest"] = "completed"
    /\ status["report"] = "completed"
    /\ status["train"] = "failed"
    /\ showReport
    /\ \A job \in Jobs : ~timers[job].pending


\* What the consumer holds or was returned.
C39_View ==
    <<panel, result, origin, fout>>

\* A step in which a read operation returned something leaves every
\* snapshot of every symbol as it was.
C39_ReadStep ==
    C39_View' # C39_View => store' = store

====
